---- MODULE Spec2Model ----
(***************************************************************************)
(* A model of the Lox front end and evaluator of this repository:          *)
(*   scanner.rs      Scanner      (source text -> tokens, error flag)      *)
(*   parser.rs       Parser       (tokens -> statements / expression)      *)
(*   interpreter.rs  Environment, Interpreter (statements -> output)       *)
(* Each component has its own specification (SpecEnvironment,              *)
(* SpecInterpreter, SpecParser, SpecScanner) over the shared variables; a  *)
(* component that a specification does not run stays in its idle state.    *)
(***************************************************************************)
EXTENDS Integers, Sequences, FiniteSets, TLC

VARIABLES
    \* ---- interpreter.rs: Interpreter
    statements,     \* the Vec<Stmt> handed to the outermost interpret call
    stack,          \* the active interpret calls, outermost first
    environment,    \* Interpreter.environment
    output,         \* the lines written by println!, oldest first
    pending,        \* the Result the innermost interpret call is returning
    outcome,        \* the Result of the outermost interpret call, once returned
    executed,       \* the statements handed to execute so far, oldest first
    \* ---- interpreter.rs: Environment used on its own
    env,            \* an Environment
    envCall,        \* the last Environment method called on env, with its arguments
    envResult,      \* what that call returned
    \* ---- parser.rs: Parser
    tokens,         \* Parser.tokens
    current,        \* Parser.current
    parsed,         \* the local `statements` of parse_statements
    stderr,         \* the lines written by eprintln!, oldest first
    parseResult,    \* what parse_statements returned, once it has
    \* ---- scanner.rs: Scanner
    source,         \* Scanner.source, as its sequence of chars
    scanStart,      \* Scanner.start (a byte offset)
    scanCurrent,    \* Scanner.current (a byte offset)
    line,           \* Scanner.line
    scanned,        \* Scanner.tokens
    error_occurred, \* Scanner.error_occurred
    scanErrors,     \* the lines error_message wrote to stderr, oldest first
    scanDone        \* scan_tokens has returned

interpVars == <<statements, stack, environment, output, pending, outcome,
                executed>>
envVars    == <<env, envCall, envResult>>
parseVars  == <<tokens, current, parsed, stderr, parseResult>>
scanVars   == <<source, scanStart, scanCurrent, line, scanned, error_occurred,
                scanErrors, scanDone>>
vars       == <<interpVars, envVars, parseVars, scanVars>>

(***************************************************************************)
(* Bounds of the model                                                     *)
(***************************************************************************)
\* the largest number of Stmt nodes of an interpreted program
MaxNodes == 4
\* the deepest scope chain of an Environment used on its own
MaxChain == 3
\* the largest number of tokens, EOF aside, of a parsed token sequence
MaxTokens == 4
\* the largest source line passed to Environment.get / Environment.assign
MaxLine == 2
\* the longest source text scanned, in chars
MaxSource == 4
\* the largest number of tokens, EOF aside, of a parsed expression (two more
\* for the expressions with parentheses)
MaxExprTokens == 5
\* the largest Number among the operands of an evaluated operator
MaxNumber == 2
\* the most chars of a scanned text made of operator chars alone, or of digits
\* and dots alone
MaxRun == 5

\* variable names of interpreted programs
ProgNames == {<<"a">>}
\* a name that no interpreted program declares
UndeclaredName == <<"b">>
\* variable names of an Environment used on its own
EnvNames == {<<"a">>, <<"b">>}

(***************************************************************************)
(* expr.rs: LiteralValue                                                   *)
(* A Number is the rational num/den in lowest terms with den > 0: the      *)
(* values the model computes are small enough to be exact in an f64.       *)
(***************************************************************************)
Nil == [kind |-> "Nil", num |-> 0, den |-> 1, str |-> <<>>, bool |-> FALSE]

NumberLiteral(n) ==
    [kind |-> "Number", num |-> n, den |-> 1, str |-> <<>>, bool |-> FALSE]

StringLiteral(s) ==
    [kind |-> "String", num |-> 0, den |-> 1, str |-> s, bool |-> FALSE]

BooleanLiteral(b) ==
    [kind |-> "Boolean", num |-> 0, den |-> 1, str |-> <<>>, bool |-> b]

Abs(n) == IF n < 0 THEN -n ELSE n

RECURSIVE Gcd(_, _)
Gcd(a, b) == IF b = 0 THEN a ELSE Gcd(b, a % b)

\* the Number n/d, d # 0, in lowest terms
Ratio(n, d) ==
    LET g  == Gcd(Abs(n), Abs(d))
        sn == IF d < 0 THEN -n ELSE n
    IN  [kind |-> "Number", num |-> sn \div g, den |-> Abs(d) \div g,
         str |-> <<>>, bool |-> FALSE]

(***************************************************************************)
(* interpreter.rs: RuntimeError                                            *)
(***************************************************************************)
NoError == [message |-> "", name |-> <<>>, line |-> 0]

RuntimeError(message, ln) == [message |-> message, name |-> <<>>, line |-> ln]

\* format!("{}", lexeme): the chars of a lexeme as one string
RECURSIVE LexemeText(_)
LexemeText(lexeme) ==
    IF lexeme = <<>> THEN "" ELSE Head(lexeme) \o LexemeText(Tail(lexeme))

\* format!("Undefined variable '{}'.", name)
UndefinedVariable(name, ln) ==
    [message |-> "Undefined variable", name |-> name, line |-> ln]

(***************************************************************************)
(* interpreter.rs: Environment                                             *)
(* An Environment is the sequence of its scopes, its own `values` first,   *)
(* then those of `enclosing`, and so on outwards; each scope is a function *)
(* from the names it declares to their values.                             *)
(***************************************************************************)
NoValues == [n \in {} |-> Nil]

\* Environment::new
EnvironmentNew == <<NoValues>>

\* Environment::from_enclosing: the enclosing Environment is moved in (by value)
FromEnclosing(enclosing) == <<NoValues>> \o enclosing

\* HashMap::insert
Insert(values, name, value) ==
    [n \in DOMAIN values \cup {name} |-> IF n = name THEN value ELSE values[n]]

\* Environment::define, mutated: a name that an enclosing scope declares is
\* overwritten there (in the innermost such scope) instead
DefineWhereDeclared(e, name, value) ==
    IF \E i \in 2..Len(e) : name \in DOMAIN e[i]
    THEN [e EXCEPT ![CHOOSE i \in 2..Len(e) :
                       /\ name \in DOMAIN e[i]
                       /\ \A j \in 2..(i - 1) : name \notin DOMAIN e[j]] =
                     Insert(@, name, value)]
    ELSE [e EXCEPT ![1] = Insert(e[1], name, value)]

\* Environment::define
Define(e, name, value) == [e EXCEPT ![1] = Insert(e[1], name, value)]

\* Environment::get, mutated: the enclosing chain is searched before the
\* current scope
RECURSIVE GetOuterFirst(_, _, _)
GetOuterFirst(e, name, ln) ==
    LET outer == IF Len(e) > 1
                 THEN GetOuterFirst(Tail(e), name, ln)
                 ELSE [ok |-> FALSE, value |-> Nil,
                       error |-> UndefinedVariable(name, ln)]
    IN  IF outer.ok THEN outer
        ELSE IF name \in DOMAIN e[1]
             THEN [ok |-> TRUE, value |-> e[1][name], error |-> NoError]
             ELSE outer

\* Environment::get
RECURSIVE Get(_, _, _)
Get(e, name, ln) ==
    IF name \in DOMAIN e[1]
    THEN [ok |-> TRUE, value |-> e[1][name], error |-> NoError]
    ELSE IF Len(e) > 1
         THEN Get(Tail(e), name, ln)
         ELSE [ok |-> FALSE, value |-> Nil, error |-> UndefinedVariable(name, ln)]

\* Environment::assign, mutated: declares the name in the current scope when
\* no scope of the chain declares it
RECURSIVE AssignDeclaring(_, _, _, _)
AssignDeclaring(e, name, value, ln) ==
    IF name \in DOMAIN e[1]
    THEN [ok |-> TRUE, env |-> [e EXCEPT ![1] = Insert(e[1], name, value)],
          error |-> NoError]
    ELSE IF Len(e) > 1
         THEN LET r == AssignDeclaring(Tail(e), name, value, ln)
              IN  [ok |-> r.ok, env |-> <<e[1]>> \o r.env, error |-> r.error]
         ELSE [ok |-> TRUE, env |-> [e EXCEPT ![1] = Insert(e[1], name, value)],
               error |-> NoError]

\* Environment::assign
RECURSIVE Assign(_, _, _, _)
Assign(e, name, value, ln) ==
    IF name \in DOMAIN e[1]
    THEN [ok |-> TRUE, env |-> [e EXCEPT ![1] = Insert(e[1], name, value)],
          error |-> NoError]
    ELSE IF Len(e) > 1
         THEN LET r == Assign(Tail(e), name, value, ln)
              IN  [ok |-> r.ok, env |-> <<e[1]>> \o r.env, error |-> r.error]
         ELSE [ok |-> FALSE, env |-> e, error |-> UndefinedVariable(name, ln)]

(***************************************************************************)
(* token.rs: Token, as far as the interpreter reads it                      *)
(***************************************************************************)
Token(token_type, lexeme, ln) ==
    [token_type |-> token_type, lexeme |-> lexeme, line |-> ln]

(***************************************************************************)
(* expr.rs: Expr                                                           *)
(***************************************************************************)
NoExpr == [type |-> "None"]

Literal(value) == [type |-> "Literal", value |-> value]

Grouping(expr) == [type |-> "Grouping", expr |-> expr]

Unary(operator, right) == [type |-> "Unary", operator |-> operator, right |-> right]

Binary(left, operator, right) ==
    [type |-> "Binary", left |-> left, operator |-> operator, right |-> right]

Variable(name) == [type |-> "Variable", name |-> name]

AssignExpr(name, value) == [type |-> "Assign", name |-> name, value |-> value]

(***************************************************************************)
(* stmt.rs: Stmt                                                           *)
(***************************************************************************)
ExpressionStmt(expr) == [type |-> "Expression", expr |-> expr]

PrintStmt(expr) == [type |-> "Print", expr |-> expr]

\* initializer is NoExpr for Option::None
VarStmt(name, initializer) ==
    [type |-> "Var", name |-> name, initializer |-> initializer]

BlockStmt(body) == [type |-> "Block", statements |-> body]

(***************************************************************************)
(* interpreter.rs: Interpreter, the evaluation of expressions              *)
(* An evaluation returns the Result and the Environment it leaves behind   *)
(* (an assignment inside an expression changes the Environment).           *)
(***************************************************************************)
Ok(value, e) == [ok |-> TRUE, value |-> value, env |-> e, error |-> NoError]

Err(error, e) == [ok |-> FALSE, value |-> Nil, env |-> e, error |-> error]

\* Interpreter::is_truthy, mutated: Number 0 and the empty String are falsy
\* as well
IsTruthyButZeroAndEmpty(value) ==
    CASE value.kind = "Nil" -> FALSE
      [] value.kind = "Boolean" -> value.bool
      [] value.kind = "Number" -> value.num # 0
      [] value.kind = "String" -> value.str # <<>>

\* Interpreter::is_truthy
IsTruthy(value) ==
    CASE value.kind = "Nil" -> FALSE
      [] value.kind = "Boolean" -> value.bool
      [] OTHER -> TRUE

\* Interpreter::expect_number_literal, mutated: every value passes
ExpectNumberLiteralAny(value, ln) == [ok |-> TRUE, error |-> NoError]

\* Interpreter::expect_number_literal
ExpectNumberLiteral(value, ln) ==
    IF value.kind = "Number"
    THEN [ok |-> TRUE, error |-> NoError]
    ELSE [ok |-> FALSE, error |-> RuntimeError("Operand must be a number.", ln)]

\* f64 arithmetic and comparison on the Numbers of the model
NumAdd(x, y) == Ratio(x.num * y.den + y.num * x.den, x.den * y.den)
NumSub(x, y) == Ratio(x.num * y.den - y.num * x.den, x.den * y.den)
NumMul(x, y) == Ratio(x.num * y.num, x.den * y.den)
NumDiv(x, y) == Ratio(x.num * y.den, x.den * y.num)
NumLess(x, y) == x.num * y.den < y.num * x.den

\* Interpreter::visit_binary, the arm of PLUS, mutated: two Strings are not
\* concatenated
PlusOfNumbersOnly(operator, l, r, e) ==
    IF l.kind = "Number" /\ r.kind = "Number"
    THEN Ok(NumAdd(l, r), e)
    ELSE Err(RuntimeError("Operands must be two numbers or two strings.",
                          operator.line), e)

\* Interpreter::visit_binary, the arm of PLUS
Plus(operator, l, r, e) ==
    IF l.kind = "String" /\ r.kind = "String"
    THEN Ok(StringLiteral(l.str \o r.str), e)
    ELSE IF l.kind = "Number" /\ r.kind = "Number"
    THEN Ok(NumAdd(l, r), e)
    ELSE Err(RuntimeError("Operands must be two numbers or two strings.",
                          operator.line), e)

\* PartialEq of LiteralValue, mutated: the payloads are compared whatever the
\* variants
ValuesEqualByPayload(l, r) ==
    l.num * r.den = r.num * l.den /\ l.str = r.str /\ l.bool = r.bool

\* PartialEq of LiteralValue (derived): the same variant with equal payload
ValuesEqual(l, r) == l = r

\* Interpreter::visit_binary, once both operands are evaluated
BinaryOp(operator, l, r, e) ==
    LET t  == operator.token_type
        el == ExpectNumberLiteral(l, operator.line)
        er == ExpectNumberLiteral(r, operator.line)
        \* left_num is extracted before right_num, each with `?`
        Numeric(result) ==
            IF ~el.ok THEN Err(el.error, e)
            ELSE IF ~er.ok THEN Err(er.error, e)
            ELSE result
    IN  CASE t = "PLUS" -> Plus(operator, l, r, e)
          [] t = "MINUS" -> Numeric(Ok(NumSub(l, r), e))
          [] t = "STAR" -> Numeric(Ok(NumMul(l, r), e))
          [] t = "SLASH" ->
               Numeric(IF r.num = 0
                       THEN Err(RuntimeError("Division by zero.", operator.line), e)
                       ELSE Ok(NumDiv(l, r), e))
          [] t = "GREATER" -> Numeric(Ok(BooleanLiteral(NumLess(r, l)), e))
          [] t = "GREATER_EQUAL" -> Numeric(Ok(BooleanLiteral(~NumLess(l, r)), e))
          [] t = "LESS" -> Numeric(Ok(BooleanLiteral(NumLess(l, r)), e))
          [] t = "LESS_EQUAL" -> Numeric(Ok(BooleanLiteral(~NumLess(r, l)), e))
          [] t = "EQUAL_EQUAL" -> Ok(BooleanLiteral(ValuesEqual(l, r)), e)
          [] t = "BANG_EQUAL" -> Ok(BooleanLiteral(~ValuesEqual(l, r)), e)
          [] OTHER -> Err(RuntimeError("Unknown operator: "
                                           \o LexemeText(operator.lexeme),
                                       operator.line), e)

\* Interpreter::visit_unary, once the operand is evaluated
UnaryOp(operator, r, e) ==
    CASE operator.token_type = "MINUS" ->
           IF r.kind = "Number"
           THEN Ok(Ratio(-r.num, r.den), e)
           ELSE Err(RuntimeError("Operand must be a number.", operator.line), e)
      [] operator.token_type = "BANG" -> Ok(BooleanLiteral(~IsTruthy(r)), e)
      [] OTHER -> Err(RuntimeError("Unknown unary operator: "
                                       \o LexemeText(operator.lexeme),
                                   operator.line), e)

\* Interpreter::evaluate, with visit_literal, visit_grouping, visit_unary and
\* visit_binary
RECURSIVE Evaluate(_, _)
Evaluate(expr, e) ==
    CASE expr.type = "Literal" -> Ok(expr.value, e)
      [] expr.type = "Assign" ->
           LET v == Evaluate(expr.value, e)
           IN  IF ~v.ok THEN v
               ELSE LET a == Assign(v.env, expr.name.lexeme, v.value, expr.name.line)
                    IN  IF a.ok THEN Ok(v.value, a.env) ELSE Err(a.error, v.env)
      [] expr.type = "Variable" ->
           LET g == Get(e, expr.name.lexeme, expr.name.line)
           IN  IF g.ok THEN Ok(g.value, e) ELSE Err(g.error, e)
      [] expr.type = "Unary" ->
           LET r == Evaluate(expr.right, e)
           IN  IF ~r.ok THEN r ELSE UnaryOp(expr.operator, r.value, r.env)
      [] expr.type = "Binary" ->
           LET l == Evaluate(expr.left, e)
           IN  IF ~l.ok THEN l
               ELSE LET r == Evaluate(expr.right, l.env)
                    IN  IF ~r.ok THEN r
                        ELSE BinaryOp(expr.operator, l.value, r.value, r.env)
      [] expr.type = "Grouping" -> Evaluate(expr.expr, e)

\* the decimal digits of a natural number
RECURSIVE Digits(_)
Digits(n) ==
    LET d == <<"0", "1", "2", "3", "4", "5", "6", "7", "8", "9">>
    IN  IF n < 10 THEN <<d[n + 1]>> ELSE Digits(n \div 10) \o <<d[(n % 10) + 1]>>

\* format!("{}", n as i64)
FormatI64(n) == IF n < 0 THEN <<"-">> \o Digits(-n) ELSE Digits(n)

\* f64::to_string of a Number that is not whole and has a finite decimal
\* expansion of at most 3 places
FormatFraction(v) ==
    LET k      == CHOOSE j \in 1..3 :
                     /\ (10 ^ j) % v.den = 0
                     /\ \A i \in 1..(j - 1) : (10 ^ i) % v.den # 0
        scaled == (Abs(v.num) * (10 ^ k)) \div v.den
        whole  == scaled \div (10 ^ k)
        frac   == Digits((10 ^ k) + (scaled % (10 ^ k)))
    IN  (IF v.num < 0 THEN <<"-">> ELSE <<>>)
        \o Digits(whole) \o <<".">> \o Tail(frac)

\* Interpreter::literal_to_string
LiteralToString(value) ==
    CASE value.kind = "String" -> value.str
      [] value.kind = "Number" ->
           IF value.den = 1 THEN FormatI64(value.num) ELSE FormatFraction(value)
      [] value.kind = "Boolean" ->
           IF value.bool THEN <<"t", "r", "u", "e">> ELSE <<"f", "a", "l", "s", "e">>
      [] value.kind = "Nil" -> <<"n", "i", "l">>

(***************************************************************************)
(* interpreter.rs: Interpreter, the execution of statements                *)
(*                                                                         *)
(* stack holds one frame per active interpret call: the statements it      *)
(* iterates over, the index i of the statement its for loop is at, and,    *)
(* for the call made by execute_block, the local `previous` of that        *)
(* execute_block. path locates the frame's statement list in the program   *)
(* (the indices of the enclosing Block statements), and executed lists the *)
(* paths of the statements handed to execute so far.                       *)
(***************************************************************************)
NoResult == [ok |-> TRUE, error |-> NoError]

Top == stack[Len(stack)]

\* the for loop of interpret, mutated: the result of execute is dropped
LoopContinuesIgnoringErr(frame, result) == frame.i <= Len(frame.statements)

\* the for loop of interpret has a next statement: no `?` has returned early
\* and the iterator is not exhausted

LoopContinues(frame, result) == result.ok /\ frame.i <= Len(frame.statements)

HasNext == /\ outcome.status = "running"
           /\ stack # <<>>
           /\ LoopContinues(Top, pending)

Stmt == Top.statements[Top.i]

\* the for loop moves on to the next statement after execute returned Ok
Advance(frames) == [frames EXCEPT ![Len(frames)].i = @ + 1]

\* execute returned `result`: `self.execute(&stmt)?`
AfterExecute(frames, result) == IF result.ok THEN Advance(frames) ELSE frames

Log == executed' = Append(executed, Append(Top.path, Top.i))

\* execute, Stmt::Print
ExecutePrint ==
    /\ HasNext /\ Stmt.type = "Print"
    /\ LET r == Evaluate(Stmt.expr, environment)
       IN  /\ environment' = r.env
           /\ output' = IF r.ok THEN Append(output, LiteralToString(r.value))
                                ELSE output
           /\ pending' = [ok |-> r.ok, error |-> r.error]
           /\ stack' = AfterExecute(stack, r)
    /\ Log
    /\ UNCHANGED <<statements, outcome>>
    /\ UNCHANGED <<envVars, parseVars, scanVars>>

\* execute, Stmt::Expression
ExecuteExpression ==
    /\ HasNext /\ Stmt.type = "Expression"
    /\ LET r == Evaluate(Stmt.expr, environment)
       IN  /\ environment' = r.env
           /\ pending' = [ok |-> r.ok, error |-> r.error]
           /\ stack' = AfterExecute(stack, r)
    /\ Log
    /\ UNCHANGED <<statements, output, outcome>>
    /\ UNCHANGED <<envVars, parseVars, scanVars>>

\* execute, Stmt::Var
ExecuteVar ==
    /\ HasNext /\ Stmt.type = "Var"
    /\ LET r == IF Stmt.initializer.type # "None"
                THEN Evaluate(Stmt.initializer, environment)
                ELSE Ok(Nil, environment)
       IN  /\ environment' = IF r.ok THEN Define(r.env, Stmt.name.lexeme, r.value)
                                     ELSE r.env
           /\ pending' = [ok |-> r.ok, error |-> r.error]
           /\ stack' = AfterExecute(stack, r)
    /\ Log
    /\ UNCHANGED <<statements, output, outcome>>
    /\ UNCHANGED <<envVars, parseVars, scanVars>>

\* execute, Stmt::Block, and execute_block up to its call of interpret: the
\* block's Environment encloses a clone of the current one, which is kept in
\* `previous`
ExecuteBlock ==
    /\ HasNext /\ Stmt.type = "Block"
    /\ environment' = FromEnclosing(environment)
    /\ stack' = Append(stack, [statements |-> Stmt.statements, i |-> 1,
                               previous |-> environment,
                               path |-> Append(Top.path, Top.i)])
    /\ Log
    /\ UNCHANGED <<statements, output, pending, outcome>>
    /\ UNCHANGED <<envVars, parseVars, scanVars>>

\* execute_block's merge, mutated: the block's scope is kept on top of
\* `previous` instead of being dropped
MergeValuesKeepingScope(previous, values) == <<values>> \o previous

\* execute_block's loop over self.environment.values: previous.define(key, value)
MergeValues(previous, values) ==
    [previous EXCEPT ![1] =
        [n \in DOMAIN previous[1] \cup DOMAIN values |->
            IF n \in DOMAIN values THEN values[n] ELSE previous[1][n]]]

\* execute_block once its call of interpret has returned (with Ok or Err): the
\* block's own values are merged into `previous`, which becomes the current
\* Environment again, and the result of interpret is returned to execute
ExecuteBlockReturn ==
    /\ outcome.status = "running"
    /\ Len(stack) > 1
    /\ ~LoopContinues(Top, pending)
    /\ environment' = MergeValues(Top.previous, environment[1])
    /\ stack' = AfterExecute(SubSeq(stack, 1, Len(stack) - 1), pending)
    /\ UNCHANGED <<statements, output, pending, outcome, executed>>
    /\ UNCHANGED <<envVars, parseVars, scanVars>>

\* the outermost interpret call returns
InterpretReturn ==
    /\ outcome.status = "running"
    /\ Len(stack) = 1
    /\ ~LoopContinues(Top, pending)
    /\ outcome' = [status |-> IF pending.ok THEN "ok" ELSE "err",
                   error |-> pending.error]
    /\ stack' = <<>>
    /\ UNCHANGED <<statements, environment, output, pending, executed>>
    /\ UNCHANGED <<envVars, parseVars, scanVars>>

(***************************************************************************)
(* The programs interpreted: every statement list of at most MaxNodes      *)
(* statements (Block statements and the statements inside them included)   *)
(* built from blocks and the statements                                    *)
(*     var a;   var a = 1;   var a = 2;   a = 3;   print a;   print b;     *)
(* where b is declared nowhere, so that `print b;` always fails            *)
(***************************************************************************)
NameToken(n) == Token("IDENTIFIER", n, 1)

SimpleStmts ==
    UNION {{ VarStmt(NameToken(n), NoExpr),
             VarStmt(NameToken(n), Literal(NumberLiteral(1))),
             VarStmt(NameToken(n), Literal(NumberLiteral(2))),
             ExpressionStmt(AssignExpr(NameToken(n), Literal(NumberLiteral(3)))),
             PrintStmt(Variable(NameToken(n))) } : n \in ProgNames}
    \cup {PrintStmt(Variable(NameToken(UndeclaredName)))}

RECURSIVE StmtLists(_)
StmtLists(n) ==
    IF n = 0 THEN {<<>>}
    ELSE {<<>>}
         \cup {<<s>> \o rest : s \in SimpleStmts, rest \in StmtLists(n - 1)}
         \cup UNION {{<<BlockStmt(body)>> \o rest :
                         body \in StmtLists(k), rest \in StmtLists(n - 1 - k)} :
                     k \in 0..(n - 1)}

EnvIdle == /\ env = EnvironmentNew
           /\ envCall = [op |-> "none", name |-> <<>>, value |-> Nil, line |-> 0]
           /\ envResult = [ok |-> TRUE, value |-> Nil, error |-> NoError]

ParserIdle == /\ tokens = <<>>
              /\ current = 0
              /\ parsed = <<>>
              /\ stderr = <<>>
              /\ parseResult = "none"

ScannerIdle == /\ source = <<>>
               /\ scanStart = 0
               /\ scanCurrent = 0
               /\ line = 1
               /\ scanned = <<>>
               /\ error_occurred = FALSE
               /\ scanErrors = <<>>
               /\ scanDone = FALSE

InterpreterIdle == /\ statements = <<>>
                   /\ stack = <<>>
                   /\ environment = EnvironmentNew
                   /\ output = <<>>
                   /\ pending = NoResult
                   /\ outcome = [status |-> "idle", error |-> NoError]
                   /\ executed = <<>>

\* Interpreter::new, then interpret(statements) is called
InitInterpreter ==
    /\ statements \in StmtLists(MaxNodes)
    /\ stack = <<[statements |-> statements, i |-> 1, previous |-> <<>>,
                  path |-> <<>>]>>
    /\ environment = EnvironmentNew
    /\ output = <<>>
    /\ pending = NoResult
    /\ outcome = [status |-> "running", error |-> NoError]
    /\ executed = <<>>
    /\ EnvIdle /\ ParserIdle /\ ScannerIdle

NextInterpreter ==
    \/ ExecutePrint
    \/ ExecuteExpression
    \/ ExecuteVar
    \/ ExecuteBlock
    \/ ExecuteBlockReturn
    \/ InterpretReturn

SpecInterpreter == InitInterpreter /\ [][NextInterpreter]_vars

(***************************************************************************)
(* The evaluation of one operator: the program is  var a = <expression>;   *)
(* where the expression applies a binary or unary operator, on a line up   *)
(* to MaxLine, to operands that are literals or the grouping (1 - 1), so   *)
(* that the value of the expression ends up bound to a, or its             *)
(* RuntimeError in the Result of interpret.                                *)
(***************************************************************************)
EvalValues ==
    {Nil, BooleanLiteral(TRUE), BooleanLiteral(FALSE)}
    \cup {NumberLiteral(n) : n \in 0..MaxNumber}
    \cup {StringLiteral(str) : str \in {<<>>, <<"a">>, <<"0">>, <<"1">>,
                                        <<"f", "a", "l", "s", "e">>}}

\* (1 - 1)
ZeroByComputation ==
    Grouping(Binary(Literal(NumberLiteral(1)), Token("MINUS", <<"-">>, 1),
                    Literal(NumberLiteral(1))))

EvalOperands == {Literal(v) : v \in EvalValues} \cup {ZeroByComputation}

BinaryOperatorTokens(ln) ==
    { Token("PLUS", <<"+">>, ln), Token("MINUS", <<"-">>, ln),
      Token("STAR", <<"*">>, ln), Token("SLASH", <<"/">>, ln),
      Token("GREATER", <<">">>, ln), Token("GREATER_EQUAL", <<">", "=">>, ln),
      Token("LESS", <<"<">>, ln), Token("LESS_EQUAL", <<"<", "=">>, ln),
      Token("EQUAL_EQUAL", <<"=", "=">>, ln), Token("BANG_EQUAL", <<"!", "=">>, ln) }

UnaryOperatorTokens(ln) == {Token("MINUS", <<"-">>, ln), Token("BANG", <<"!">>, ln)}

EvalExprs ==
    {Binary(l, op, r) : l \in EvalOperands, r \in EvalOperands,
                        op \in UNION {BinaryOperatorTokens(ln) : ln \in 1..MaxLine}}
    \cup {Unary(op, r) : r \in EvalOperands,
                         op \in UNION {UnaryOperatorTokens(ln) : ln \in 1..MaxLine}}

\* Interpreter::new, then interpret(statements) is called
InitEvaluate ==
    /\ statements \in {<<VarStmt(NameToken(<<"a">>), expr)>> : expr \in EvalExprs}
    /\ stack = <<[statements |-> statements, i |-> 1, previous |-> <<>>,
                  path |-> <<>>]>>
    /\ environment = EnvironmentNew
    /\ output = <<>>
    /\ pending = NoResult
    /\ outcome = [status |-> "running", error |-> NoError]
    /\ executed = <<>>
    /\ EnvIdle /\ ParserIdle /\ ScannerIdle

NextEvaluate ==
    \/ ExecuteVar
    \/ InterpretReturn

SpecEvaluate == InitEvaluate /\ [][NextEvaluate]_vars

(***************************************************************************)
(* An Environment used on its own: any sequence of define, get, assign and *)
(* from_enclosing calls, starting from Environment::new                    *)
(***************************************************************************)
EnvValues == {NumberLiteral(1), NumberLiteral(2)}

EnvDefine(n, v) ==
    /\ env' = Define(env, n, v)
    /\ envCall' = [op |-> "define", name |-> n, value |-> v, line |-> 0]
    /\ envResult' = [ok |-> TRUE, value |-> Nil, error |-> NoError]
    /\ UNCHANGED <<interpVars, parseVars, scanVars>>

EnvGet(n, ln) ==
    /\ env' = env
    /\ envCall' = [op |-> "get", name |-> n, value |-> Nil, line |-> ln]
    /\ envResult' = Get(env, n, ln)
    /\ UNCHANGED <<interpVars, parseVars, scanVars>>

EnvAssign(n, v, ln) ==
    /\ LET r == Assign(env, n, v, ln)
       IN  /\ env' = r.env
           /\ envResult' = [ok |-> r.ok, value |-> Nil, error |-> r.error]
    /\ envCall' = [op |-> "assign", name |-> n, value |-> v, line |-> ln]
    /\ UNCHANGED <<interpVars, parseVars, scanVars>>

EnvFromEnclosing ==
    /\ Len(env) < MaxChain
    /\ env' = FromEnclosing(env)
    /\ envCall' = [op |-> "from_enclosing", name |-> <<>>, value |-> Nil,
                   line |-> 0]
    /\ envResult' = [ok |-> TRUE, value |-> Nil, error |-> NoError]
    /\ UNCHANGED <<interpVars, parseVars, scanVars>>

InitEnvironment == EnvIdle /\ InterpreterIdle /\ ParserIdle /\ ScannerIdle

NextEnvironment ==
    \/ \E n \in EnvNames, v \in EnvValues : EnvDefine(n, v)
    \/ \E n \in EnvNames, ln \in 1..MaxLine : EnvGet(n, ln)
    \/ \E n \in EnvNames, v \in EnvValues, ln \in 1..MaxLine : EnvAssign(n, v, ln)
    \/ EnvFromEnclosing

SpecEnvironment == InitEnvironment /\ [][NextEnvironment]_vars

(***************************************************************************)
(* parser.rs: Parser                                                       *)
(*                                                                         *)
(* A parsing method is an operator from the parser's position to what the  *)
(* method returns and leaves behind:                                       *)
(*   some, node  the Option returned (node is meaningful when some)        *)
(*   cur         Parser.current afterwards                                 *)
(*   err         the lines written to stderr so far                        *)
(*   exit        Parser::error has called process::exit(65)                *)
(*   loops       a `while` loop of Parser::block makes no progress: it     *)
(*               repeats the same iteration forever                        *)
(***************************************************************************)
PSome(node, cur, err) ==
    [some |-> TRUE, node |-> node, cur |-> cur, err |-> err, exit |-> FALSE,
     loops |-> FALSE]

PNone(cur, err) ==
    [some |-> FALSE, node |-> NoExpr, cur |-> cur, err |-> err, exit |-> FALSE,
     loops |-> FALSE]

\* Parser::peek (current counts from 0)
Peek(cur) == tokens[cur + 1]

\* Parser::previous
Previous(cur) == tokens[cur]

\* Parser::is_at_end
IsAtEnd(cur) == Peek(cur).token_type = "EOF"

\* Parser::check
Check(cur, token_type) == ~IsAtEnd(cur) /\ Peek(cur).token_type = token_type

\* Parser::match_token: whether it matches; it then advances by one token
MatchToken(cur, types) == \E t \in types : Check(cur, t)

\* Parser::error: eprintln!("[line {}] Error: {}", ...) and process::exit(65)
ParserError(cur, err, message) ==
    [some |-> FALSE, node |-> NoExpr, cur |-> cur,
     err |-> Append(err, [line |-> Peek(cur).line, message |-> message]),
     exit |-> TRUE, loops |-> FALSE]

\* Parser::consume: eprintln!("{}", message) when the token is not there
Consume(cur, err, token_type, message) ==
    IF Check(cur, token_type)
    THEN PSome(Peek(cur), cur + 1, err)
    ELSE PNone(cur, Append(err, [line |-> 0, message |-> message]))

\* the value of a digit
DigitValue(c) ==
    CHOOSE d \in 0..9 : <<"0", "1", "2", "3", "4", "5", "6", "7", "8", "9">>[d + 1] = c

\* str::parse::<f64> of a run of digits with at most one '.' inside it
RECURSIVE ParseF64From(_, _, _, _)
ParseF64From(chars, k, num, den) ==
    IF k > Len(chars) THEN Ratio(num, IF den = 0 THEN 1 ELSE den)
    ELSE IF chars[k] = "." THEN ParseF64From(chars, k + 1, num, 1)
    ELSE ParseF64From(chars, k + 1, num * 10 + DigitValue(chars[k]), den * 10)

ParseF64(chars) == ParseF64From(chars, 1, 0, 0)

\* the operators of factor (1), term (2), comparison (3) and equality (4),
\* mutated: those of factor and term change places
BinaryOperatorsSwapped(level) ==
    CASE level = 1 -> {"PLUS", "MINUS"}
      [] level = 2 -> {"STAR", "SLASH"}
      [] level = 3 -> {"GREATER", "GREATER_EQUAL", "LESS", "LESS_EQUAL"}
      [] level = 4 -> {"BANG_EQUAL", "EQUAL_EQUAL"}

\* the operators of factor (1), term (2), comparison (3) and equality (4)
BinaryOperators(level) ==
    CASE level = 1 -> {"STAR", "SLASH"}
      [] level = 2 -> {"PLUS", "MINUS"}
      [] level = 3 -> {"GREATER", "GREATER_EQUAL", "LESS", "LESS_EQUAL"}
      [] level = 4 -> {"BANG_EQUAL", "EQUAL_EQUAL"}

\* the element of a one-element set: `Only({F(x) : x \in {e}})` is F(e) with
\* e evaluated once
Only(S) == CHOOSE x \in S : TRUE

RECURSIVE ParseExpr(_, _), ParseAssignment(_, _), AssignmentAfterEquality(_),
          AssignmentAfterValue(_, _), ParseBinary(_, _, _),
          ParseBinaryLoop(_, _), BinaryAfterRight(_, _, _), ParseUnary(_, _),
          ParsePrimary(_, _)

\* Parser::expression
ParseExpr(cur, err) == ParseAssignment(cur, err)

\* Parser::assignment
ParseAssignment(cur, err) ==
    Only({AssignmentAfterEquality(expr) : expr \in {ParseBinary(4, cur, err)}})

\* Parser::assignment after `let expr = self.equality()`
AssignmentAfterEquality(expr) ==
    IF expr.exit THEN expr
    ELSE IF MatchToken(expr.cur, {"EQUAL"})
    THEN Only({AssignmentAfterValue(expr, value) :
                  value \in {ParseAssignment(expr.cur + 1, expr.err)}})
    ELSE expr

\* Parser::assignment after `let value = self.assignment()`, mutated: a
\* left-hand side that is no Variable is returned as it is, with no error
AssignmentAfterValueNoError(expr, value) ==
    IF value.exit THEN value
    ELSE IF expr.some /\ expr.node.type = "Variable"
    THEN IF value.some
         THEN PSome(AssignExpr(expr.node.name, value.node), value.cur, value.err)
         ELSE PNone(value.cur, value.err)
    ELSE [expr EXCEPT !.cur = value.cur, !.err = value.err]

\* Parser::assignment after `let value = self.assignment()`
AssignmentAfterValue(expr, value) ==
    IF value.exit THEN value
    ELSE IF expr.some /\ expr.node.type = "Variable"
    THEN IF value.some
         THEN PSome(AssignExpr(expr.node.name, value.node), value.cur, value.err)
         ELSE PNone(value.cur, value.err)
    ELSE ParserError(value.cur, value.err, "Invalid assignment target.")

\* Parser::factor (level 1), term (2), comparison (3), equality (4): the
\* first operand, then the while loop
ParseBinary(level, cur, err) ==
    Only({ParseBinaryLoop(level, expr) :
             expr \in {IF level = 1 THEN ParseUnary(cur, err)
                                    ELSE ParseBinary(level - 1, cur, err)}})

\* the while loop of factor, term, comparison and equality, `expr` being the
\* Option built so far
ParseBinaryLoop(level, expr) ==
    IF expr.exit THEN expr
    ELSE IF MatchToken(expr.cur, BinaryOperators(level))
    THEN Only({BinaryAfterRight(level, expr, right) :
                  right \in {IF level = 1
                             THEN ParseUnary(expr.cur + 1, expr.err)
                             ELSE ParseBinary(level - 1, expr.cur + 1, expr.err)}})
    ELSE expr

\* the body of that loop once the right operand is parsed: `expr?` and
\* `right?` return None from the method
BinaryAfterRight(level, expr, right) ==
    IF right.exit THEN right
    ELSE IF expr.some /\ right.some
    THEN ParseBinaryLoop(level,
             PSome(Binary(expr.node, Peek(expr.cur), right.node),
                   right.cur, right.err))
    ELSE PNone(right.cur, right.err)

\* Parser::unary once the operand is parsed
UnaryAfterRight(operator, right) ==
    IF right.exit \/ ~right.some THEN right
    ELSE PSome(Unary(operator, right.node), right.cur, right.err)

\* Parser::unary
ParseUnary(cur, err) ==
    IF MatchToken(cur, {"BANG", "MINUS"})
    THEN Only({UnaryAfterRight(Peek(cur), right) :
                  right \in {ParseUnary(cur + 1, err)}})
    ELSE ParsePrimary(cur, err)

\* Parser::primary after `let expr = self.expression()` of a grouping
GroupingAfterExpression(expr) ==
    IF expr.exit THEN expr
    ELSE LET paren == Consume(expr.cur, expr.err, "RIGHT_PAREN",
                              "Expect ')' after expression.")
         IN  IF paren.some /\ expr.some
             THEN PSome(Grouping(expr.node), paren.cur, paren.err)
             ELSE PNone(paren.cur, paren.err)

\* Parser::primary
ParsePrimary(cur, err) ==
    CASE Check(cur, "NUMBER") ->
           IF Peek(cur).literal = <<>> THEN PNone(cur + 1, err)
           ELSE PSome(Literal(ParseF64(Peek(cur).literal[1])), cur + 1, err)
      [] Check(cur, "STRING") ->
           IF Peek(cur).literal = <<>> THEN PNone(cur + 1, err)
           ELSE PSome(Literal(StringLiteral(Peek(cur).literal[1])), cur + 1, err)
      [] Check(cur, "TRUE") -> PSome(Literal(BooleanLiteral(TRUE)), cur + 1, err)
      [] Check(cur, "FALSE") -> PSome(Literal(BooleanLiteral(FALSE)), cur + 1, err)
      [] Check(cur, "NIL") -> PSome(Literal(Nil), cur + 1, err)
      [] Check(cur, "IDENTIFIER") ->
           PSome(Variable(Token("IDENTIFIER", Peek(cur).lexeme, Peek(cur).line)),
                 cur + 1, err)
      [] Check(cur, "LEFT_PAREN") ->
           Only({GroupingAfterExpression(expr) : expr \in {ParseExpr(cur + 1, err)}})
      [] OTHER -> PNone(cur, err)

\* Parser::expression_statement after `self.expression()`
ExpressionStatementAfterExpression(expr) ==
    IF expr.exit \/ ~expr.some THEN expr
    ELSE LET semi == Consume(expr.cur, expr.err, "SEMICOLON",
                             "Expect ';' after expression.")
         IN  IF semi.some THEN PSome(ExpressionStmt(expr.node), semi.cur, semi.err)
             ELSE semi

\* Parser::expression_statement
ParseExpressionStatement(cur, err) ==
    Only({ExpressionStatementAfterExpression(expr) : expr \in {ParseExpr(cur, err)}})

\* Parser::print_statement after `self.expression()`
PrintStatementAfterExpression(expr) ==
    IF expr.exit THEN expr
    ELSE IF expr.some
    THEN LET semi == Consume(expr.cur, expr.err, "SEMICOLON",
                             "Expect ';' after value.")
         IN  IF semi.some THEN PSome(PrintStmt(expr.node), semi.cur, semi.err)
             ELSE semi
    ELSE ParserError(expr.cur, expr.err, "Expected expression after 'print'")

\* Parser::print_statement
ParsePrintStatement(cur, err) ==
    Only({PrintStatementAfterExpression(expr) : expr \in {ParseExpr(cur, err)}})

\* Parser::var_declaration once the initializer, if any, is parsed
VarDeclarationAfterInitializer(name, init) ==
    IF init.exit \/ ~init.some THEN init
    ELSE LET semi == Consume(init.cur, init.err, "SEMICOLON",
                             "Expect ';' after variable declaration.")
         IN  IF semi.some
             THEN PSome(VarStmt(Token("IDENTIFIER", name.lexeme, name.line),
                                init.node),
                        semi.cur, semi.err)
             ELSE semi

\* Parser::var_declaration
ParseVarDeclaration(cur, err) ==
    LET name == Consume(cur, err, "IDENTIFIER", "Expect variable name.")
    IN  IF ~name.some THEN name
        ELSE IF MatchToken(name.cur, {"EQUAL"})
        THEN Only({VarDeclarationAfterInitializer(name.node, init) :
                      init \in {ParseExpr(name.cur + 1, name.err)}})
        ELSE VarDeclarationAfterInitializer(name.node,
                                            PSome(NoExpr, name.cur, name.err))

RECURSIVE ParseDeclaration(_, _), ParseStatement(_, _), ParseBlock(_, _),
          ParseBlockLoop(_, _, _), BlockAfterDeclaration(_, _, _)

\* Parser::declaration
ParseDeclaration(cur, err) ==
    IF MatchToken(cur, {"VAR"})
    THEN ParseVarDeclaration(cur + 1, err)
    ELSE ParseStatement(cur, err)

\* Parser::statement after `self.block()`
StatementAfterBlock(b) ==
    IF b.some THEN PSome(BlockStmt(b.node), b.cur, b.err) ELSE b

\* Parser::statement
ParseStatement(cur, err) ==
    IF MatchToken(cur, {"PRINT"})
    THEN ParsePrintStatement(cur + 1, err)
    ELSE IF MatchToken(cur, {"LEFT_BRACE"})
    THEN Only({StatementAfterBlock(b) : b \in {ParseBlock(cur + 1, err)}})
    ELSE ParseExpressionStatement(cur, err)

\* Parser::block
ParseBlock(cur, err) == ParseBlockLoop(<<>>, cur, err)

\* the while loop of Parser::block, `stmts` being the statements pushed so
\* far, and what follows the loop
ParseBlockLoop(stmts, cur, err) ==
    IF ~Check(cur, "RIGHT_BRACE") /\ ~IsAtEnd(cur)
    THEN Only({BlockAfterDeclaration(stmts, cur, d) :
                  d \in {ParseDeclaration(cur, err)}})
    ELSE IF IsAtEnd(cur) \/ ~MatchToken(cur, {"RIGHT_BRACE"})
    THEN ParserError(cur, err, "Expect '}' after block.")
    ELSE PSome(stmts, cur + 1, err)

\* the body of that loop once the declaration is parsed: an iteration that
\* returns None and consumes nothing is repeated forever
BlockAfterDeclaration(stmts, cur, d) ==
    IF d.exit \/ d.loops THEN d
    ELSE IF ~d.some /\ d.cur = cur
    THEN [d EXCEPT !.loops = TRUE]
    ELSE ParseBlockLoop(IF d.some THEN Append(stmts, d.node) ELSE stmts,
                        d.cur, d.err)

\* one iteration of the while loop of parse_statements
ParseStatementsIteration ==
    /\ parseResult = "none"
    /\ ~IsAtEnd(current)
    /\ \E d \in {ParseDeclaration(current, stderr)} :
           /\ current' = d.cur
           /\ stderr' = d.err
           /\ parsed' = IF d.some THEN Append(parsed, d.node) ELSE parsed
           /\ parseResult' =
                 CASE d.exit -> "exit65"
                   [] d.loops \/ (~d.some /\ d.cur = current) -> "loops"
                   [] OTHER -> "none"
    /\ UNCHANGED tokens
    /\ UNCHANGED <<interpVars, envVars, scanVars>>

\* parse_statements returns Some(statements)
ParseStatementsReturn ==
    /\ parseResult = "none"
    /\ IsAtEnd(current)
    /\ parseResult' = "statements"
    /\ UNCHANGED <<tokens, current, parsed, stderr>>
    /\ UNCHANGED <<interpVars, envVars, scanVars>>

\* parse_expression, called on a new Parser
ParseExpression ==
    /\ parseResult = "none"
    /\ current = 0
    /\ \E e \in {ParseExpr(current, stderr)} :
           /\ current' = e.cur
           /\ stderr' = e.err
           /\ parsed' = IF e.some THEN <<e.node>> ELSE <<>>
           /\ parseResult' =
                 CASE e.exit -> "exit65"
                   [] e.some -> "expression"
                   [] OTHER -> "no expression"
    /\ UNCHANGED tokens
    /\ UNCHANGED <<interpVars, envVars, scanVars>>

(***************************************************************************)
(* The token sequences parsed: at most MaxTokens tokens of one line, then  *)
(* the EOF token                                                           *)
(***************************************************************************)
\* Token::new on line 1; literal is <<>> for None and <<text>> for Some(text)
FullToken(token_type, lexeme, literal) ==
    [token_type |-> token_type, lexeme |-> lexeme, literal |-> literal, line |-> 1]

ParserTokens ==
    { FullToken("VAR", <<"v", "a", "r">>, <<>>),
      FullToken("PRINT", <<"p", "r", "i", "n", "t">>, <<>>),
      FullToken("IDENTIFIER", <<"a">>, <<>>),
      FullToken("NUMBER", <<"1">>, <<<<"1", ".", "0">>>>),
      FullToken("EQUAL", <<"=">>, <<>>),
      FullToken("MINUS", <<"-">>, <<>>),
      FullToken("SEMICOLON", <<";">>, <<>>),
      FullToken("LEFT_BRACE", <<"{">>, <<>>),
      FullToken("RIGHT_BRACE", <<"}">>, <<>>),
      FullToken("LEFT_PAREN", <<"(">>, <<>>),
      FullToken("RIGHT_PAREN", <<")">>, <<>>) }

EofToken == FullToken("EOF", <<>>, <<>>)

RECURSIVE TokenSeqs(_)
TokenSeqs(n) ==
    IF n = 0 THEN {<<>>}
    ELSE {<<>>} \cup {<<t>> \o rest : t \in ParserTokens, rest \in TokenSeqs(n - 1)}

\* Parser::new
InitParser ==
    /\ tokens \in {ts \o <<EofToken>> : ts \in TokenSeqs(MaxTokens)}
    /\ current = 0
    /\ parsed = <<>>
    /\ stderr = <<>>
    /\ parseResult = "none"
    /\ InterpreterIdle /\ EnvIdle /\ ScannerIdle

NextParser ==
    \/ ParseStatementsIteration
    \/ ParseStatementsReturn
    \/ ParseExpression

SpecParser == InitParser /\ [][NextParser]_vars

(***************************************************************************)
(* The token sequences parsed as one expression by parse_expression: the   *)
(* token at position i is the number i when it is a NUMBER and the i-th    *)
(* letter when it is an IDENTIFIER, so that operands are told apart.       *)
(*   at most MaxExprTokens tokens of  a 1 = - ( )          (assignments)   *)
(*   at most MaxExprTokens tokens of  1 == < + - * !       (the ladder)    *)
(*   at most MaxExprTokens + 2 tokens of  1 + - * ( ), each of a kind that *)
(*   may follow the token before it                        (groupings)     *)
(***************************************************************************)
PositionDigits == <<"1", "2", "3", "4", "5", "6", "7", "8", "9">>

PositionLetters == <<"a", "b", "c", "d", "e", "f", "g", "h", "i">>

\* Token::new for the token of a kind at position i, on line 1
TokenOfKind(kind, i) ==
    CASE kind = "NUMBER" ->
           FullToken("NUMBER", <<PositionDigits[i]>>,
                     <<<<PositionDigits[i], ".", "0">>>>)
      [] kind = "IDENTIFIER" -> FullToken("IDENTIFIER", <<PositionLetters[i]>>, <<>>)
      [] kind = "EQUAL" -> FullToken("EQUAL", <<"=">>, <<>>)
      [] kind = "EQUAL_EQUAL" -> FullToken("EQUAL_EQUAL", <<"=", "=">>, <<>>)
      [] kind = "LESS" -> FullToken("LESS", <<"<">>, <<>>)
      [] kind = "PLUS" -> FullToken("PLUS", <<"+">>, <<>>)
      [] kind = "MINUS" -> FullToken("MINUS", <<"-">>, <<>>)
      [] kind = "STAR" -> FullToken("STAR", <<"*">>, <<>>)
      [] kind = "BANG" -> FullToken("BANG", <<"!">>, <<>>)
      [] kind = "LEFT_PAREN" -> FullToken("LEFT_PAREN", <<"(">>, <<>>)
      [] kind = "RIGHT_PAREN" -> FullToken("RIGHT_PAREN", <<")">>, <<>>)

AssignmentKinds == {"IDENTIFIER", "NUMBER", "EQUAL", "MINUS", "LEFT_PAREN", "RIGHT_PAREN"}

LadderKinds == {"NUMBER", "EQUAL_EQUAL", "LESS", "PLUS", "MINUS", "STAR", "BANG"}

GroupingKinds == {"NUMBER", "PLUS", "MINUS", "STAR", "LEFT_PAREN", "RIGHT_PAREN"}

\* the tokens of the kinds ks[1], ..., ks[n]
RECURSIVE TokensOfKinds(_, _)
TokensOfKinds(ks, n) ==
    IF n = 0 THEN <<>> ELSE Append(TokensOfKinds(ks, n - 1), TokenOfKind(ks[n], n))

\* the kinds of GroupingKinds that may come after the tokens ts in an
\* expression: an operand, `(` or a unary `-` at the start and after an
\* operator or `(`; an operator or `)` after an operand or `)`
GroupingKindsAfter(ts) ==
    IF ts # <<>> /\ ts[Len(ts)].token_type \in {"NUMBER", "RIGHT_PAREN"}
    THEN {"PLUS", "MINUS", "STAR", "RIGHT_PAREN"}
    ELSE {"NUMBER", "LEFT_PAREN", "MINUS"}

\* the sequences of at most n tokens of GroupingKinds in which each token may
\* come after the ones before it
RECURSIVE GroupingTokenSeqs(_)
GroupingTokenSeqs(n) ==
    IF n = 0 THEN {<<>>}
    ELSE GroupingTokenSeqs(n - 1) \cup
         UNION {{Append(ts, TokenOfKind(k, n)) : k \in GroupingKindsAfter(ts)} :
                ts \in {us \in GroupingTokenSeqs(n - 1) : Len(us) = n - 1}}

\* Parser::new
InitParseExpression ==
    /\ \/ \E n \in 0..MaxExprTokens : \E ks \in [1..n -> AssignmentKinds] :
             tokens = TokensOfKinds(ks, n) \o <<EofToken>>
       \/ \E n \in 0..MaxExprTokens : \E ks \in [1..n -> LadderKinds] :
             tokens = TokensOfKinds(ks, n) \o <<EofToken>>
       \/ tokens \in {ts \o <<EofToken>> : ts \in GroupingTokenSeqs(MaxExprTokens + 2)}
    /\ current = 0
    /\ parsed = <<>>
    /\ stderr = <<>>
    /\ parseResult = "none"
    /\ InterpreterIdle /\ EnvIdle /\ ScannerIdle

NextParseExpression == ParseExpression

SpecParseExpression == InitParseExpression /\ [][NextParseExpression]_vars

(***************************************************************************)
(* scanner.rs: Scanner                                                     *)
(*                                                                         *)
(* The source text is the sequence of its chars. A char is a one-character *)
(* string; a char outside ASCII is written as its code point ("U+00E9" is  *)
(* e with an acute accent, a letter of 2 bytes; "U+20AC" is the euro sign, *)
(* 3 bytes, not a letter). start and current are byte offsets into the     *)
(* UTF-8 encoding of the text, as in the code. The state of a Scanner is   *)
(* the record of its fields and of the lines it wrote to stderr:           *)
(*   [start, current, line, tokens, error_occurred, errs]                  *)
(***************************************************************************)
\* Option<char>::None
NoChar == ""

\* char::len_utf8
Utf8Len(c) ==
    CASE c = "U+00E9" -> 2
      [] c = "U+20AC" -> 3
      [] OTHER -> 1

\* char::is_digit(10)
IsDigit(c) == c \in {"0", "1", "2", "3", "4", "5", "6", "7", "8", "9"}

\* char::is_alphabetic, on the chars of the model
IsAlphabetic(c) ==
    c \in {"a", "b", "c", "d", "e", "f", "g", "h", "i", "j", "k", "l", "m",
           "n", "o", "p", "q", "r", "s", "t", "u", "v", "w", "x", "y", "z",
           "A", "B", "C", "D", "E", "F", "G", "H", "I", "J", "K", "L", "M",
           "N", "O", "P", "Q", "R", "S", "T", "U", "V", "W", "X", "Y", "Z",
           "U+00E9"}

\* char::is_alphanumeric, on the chars of the model
IsAlphanumeric(c) == IsAlphabetic(c) \/ IsDigit(c)

\* the number of chars of src that start before byte offset off, counted
\* from k chars (acc bytes) on
RECURSIVE CharsBefore(_, _, _, _)
CharsBefore(src, off, k, acc) ==
    IF acc >= off \/ k = Len(src) THEN k
    ELSE CharsBefore(src, off, k + 1, acc + Utf8Len(src[k + 1]))

\* source[a..b], for byte offsets a <= b on char boundaries
Slice(src, a, b) ==
    SubSeq(src, CharsBefore(src, a, 0, 0) + 1, CharsBefore(src, b, 0, 0))

\* source[cur..].chars(), the first n + 1 calls of next(): the last result
NthChar(src, cur, n) ==
    IF CharsBefore(src, cur, 0, 0) + n < Len(src)
    THEN src[CharsBefore(src, cur, 0, 0) + n + 1]
    ELSE NoChar

\* Scanner::peek
ScanPeek(src, cur) == NthChar(src, cur, 0)

\* Scanner::peek_next
ScanPeekNext(src, cur) == NthChar(src, cur, 1)

\* Scanner::new
ScannerNew ==
    [start |-> 0, current |-> 0, line |-> 1, tokens |-> <<>>,
     error_occurred |-> FALSE, errs |-> <<>>]

\* Scanner::advance, on what it does to the Scanner
ScanAdvance(src, sc) ==
    [sc EXCEPT !.current = @ + (IF ScanPeek(src, sc.current) = NoChar THEN 0
                                ELSE Utf8Len(ScanPeek(src, sc.current)))]

\* Scanner::is_at_end: current >= source.len()
ScanIsAtEnd(src, sc) == ScanPeek(src, sc.current) = NoChar

\* Scanner::add_token_with_literal; literal is <<>> for None, <<text>> for
\* Some(text)
AddTokenWithLiteral(src, sc, token_type, literal) ==
    [sc EXCEPT !.tokens =
        Append(@, [token_type |-> token_type,
                   lexeme |-> Slice(src, sc.start, sc.current),
                   literal |-> literal,
                   line |-> sc.line])]

\* Scanner::add_token
AddToken(src, sc, token_type) == AddTokenWithLiteral(src, sc, token_type, <<>>)

\* Scanner::match_next, mutated: the next char never matches
MatchNextNever(src, sc, expected) == [matched |-> FALSE, sc |-> sc]

\* Scanner::match_next: whether the next char is `expected`, and the Scanner
\* afterwards
MatchNext(src, sc, expected) ==
    IF ScanIsAtEnd(src, sc) THEN [matched |-> FALSE, sc |-> sc]
    ELSE IF ScanPeek(src, sc.current) = expected
    THEN [matched |-> TRUE, sc |-> [sc EXCEPT !.current = @ + Utf8Len(expected)]]
    ELSE [matched |-> FALSE, sc |-> sc]

\* the arms of scan_token for '=', '!', '<' and '>'
OneOrTwoChars(src, sc, two, one) ==
    IF MatchNext(src, sc, "=").matched
    THEN AddToken(src, MatchNext(src, sc, "=").sc, two)
    ELSE AddToken(src, MatchNext(src, sc, "=").sc, one)

\* Scanner::error_message, with the flag left alone
ErrorMessageOnlyPrints(sc, message, c) ==
    [sc EXCEPT !.errs = Append(@, [line |-> sc.line, message |-> message,
                                   char |-> c])]

\* Scanner::error_message; the line written is "[line L] Error: " followed by
\* message and, for an unexpected character, that character
ErrorMessage(sc, message, c) ==
    [sc EXCEPT !.errs = Append(@, [line |-> sc.line, message |-> message,
                                   char |-> c]),
               !.error_occurred = TRUE]

\* Scanner::skip_to_end_of_line, mutated: the newline that ends the comment is
\* consumed but not counted
RECURSIVE SkipToEndOfLineUncounted(_, _)
SkipToEndOfLineUncounted(src, sc) ==
    IF ScanPeek(src, sc.current) = NoChar THEN sc
    ELSE IF ScanPeek(src, sc.current) = "\n"
    THEN [sc EXCEPT !.current = @ + 1]
    ELSE SkipToEndOfLineUncounted(src, ScanAdvance(src, sc))

\* Scanner::skip_to_end_of_line
RECURSIVE SkipToEndOfLine(_, _)
SkipToEndOfLine(src, sc) ==
    IF ScanPeek(src, sc.current) = NoChar THEN sc
    ELSE IF ScanPeek(src, sc.current) = "\n"
    THEN [sc EXCEPT !.current = @ + 1, !.line = @ + 1]
    ELSE SkipToEndOfLine(src, ScanAdvance(src, sc))

\* Scanner::scan_string
RECURSIVE ScanString(_, _)
ScanString(src, sc) ==
    IF ScanPeek(src, sc.current) = NoChar
    THEN ErrorMessage(sc, "Unterminated string.", NoChar)
    ELSE IF ScanPeek(src, sc.current) = "\""
    THEN [sc EXCEPT !.current = @ + 1,
                    !.tokens = Append(@,
                        [token_type |-> "STRING",
                         lexeme |-> Slice(src, sc.start, sc.current + 1),
                         literal |-> <<Slice(src, sc.start + 1, sc.current)>>,
                         line |-> sc.line])]
    ELSE IF ScanPeek(src, sc.current) = "\n"
    THEN ScanString(src, [sc EXCEPT !.current = @ + 1, !.line = @ + 1])
    ELSE ScanString(src, ScanAdvance(src, sc))

\* Scanner.keywords, and IDENTIFIER for a lexeme that is not a key of it
KeywordOrIdentifier(lexeme) ==
    CASE lexeme = <<"a", "n", "d">> -> "AND"
      [] lexeme = <<"c", "l", "a", "s", "s">> -> "CLASS"
      [] lexeme = <<"e", "l", "s", "e">> -> "ELSE"
      [] lexeme = <<"f", "a", "l", "s", "e">> -> "FALSE"
      [] lexeme = <<"f", "o", "r">> -> "FOR"
      [] lexeme = <<"f", "u", "n">> -> "FUN"
      [] lexeme = <<"i", "f">> -> "IF"
      [] lexeme = <<"n", "i", "l">> -> "NIL"
      [] lexeme = <<"o", "r">> -> "OR"
      [] lexeme = <<"p", "r", "i", "n", "t">> -> "PRINT"
      [] lexeme = <<"r", "e", "t", "u", "r", "n">> -> "RETURN"
      [] lexeme = <<"s", "u", "p", "e", "r">> -> "SUPER"
      [] lexeme = <<"t", "h", "i", "s">> -> "THIS"
      [] lexeme = <<"t", "r", "u", "e">> -> "TRUE"
      [] lexeme = <<"v", "a", "r">> -> "VAR"
      [] lexeme = <<"w", "h", "i", "l", "e">> -> "WHILE"
      [] OTHER -> "IDENTIFIER"

\* the `while let` loop of scan_identifier: Scanner.current after it
RECURSIVE SkipAlphanumeric(_, _)
SkipAlphanumeric(src, cur) ==
    IF IsAlphanumeric(ScanPeek(src, cur)) \/ ScanPeek(src, cur) = "_"
    THEN SkipAlphanumeric(src, cur + Utf8Len(ScanPeek(src, cur)))
    ELSE cur

\* Scanner::scan_identifier
ScanIdentifier(src, sc) ==
    [sc EXCEPT !.current = SkipAlphanumeric(src, sc.current),
               !.tokens = Append(@,
                   [token_type |-> KeywordOrIdentifier(
                        Slice(src, sc.start, SkipAlphanumeric(src, sc.current))),
                    lexeme |-> Slice(src, sc.start, SkipAlphanumeric(src, sc.current)),
                    literal |-> <<>>,
                    line |-> sc.line])]

\* the `while let` loops of scan_number: Scanner.current after one
RECURSIVE SkipDigits(_, _)
SkipDigits(src, cur) ==
    IF IsDigit(ScanPeek(src, cur)) THEN SkipDigits(src, cur + 1) ELSE cur

\* the digits without their leading zeros, one digit at least
RECURSIVE StripLeadingZeros(_)
StripLeadingZeros(digits) ==
    IF Len(digits) > 1 /\ digits[1] = "0" THEN StripLeadingZeros(Tail(digits))
    ELSE digits

\* the digits without their trailing zeros
RECURSIVE StripTrailingZeros(_)
StripTrailingZeros(digits) ==
    IF Len(digits) > 0 /\ digits[Len(digits)] = "0"
    THEN StripTrailingZeros(SubSeq(digits, 1, Len(digits) - 1))
    ELSE digits

\* literal_str of scan_number: the lexeme parsed as an f64 and formatted with
\* {:.1} (no fractional part, or one of zeros only) or with to_string; the
\* lexemes of the model are short enough for the f64 to be exact
NumberLiteralStr(lexeme, has_fractional_part) ==
    IF has_fractional_part /\ \E i \in 1..Len(lexeme) : lexeme[i] = "."
    THEN LET dot == CHOOSE i \in 1..Len(lexeme) : lexeme[i] = "."
             whole == StripLeadingZeros(SubSeq(lexeme, 1, dot - 1))
             fractional_part == SubSeq(lexeme, dot + 1, Len(lexeme))
         IN IF \A i \in 1..Len(fractional_part) : fractional_part[i] = "0"
            THEN whole \o <<".", "0">>
            ELSE whole \o <<".">> \o StripTrailingZeros(fractional_part)
    ELSE StripLeadingZeros(lexeme) \o <<".", "0">>

\* scan_number once the digits of the integer part are consumed, mutated: a
\* '.' is consumed whatever follows it
NumberAfterDigitsAnyDot(src, sc, cur) ==
    IF ScanPeek(src, cur) = "."
    THEN Only({AddTokenWithLiteral(src, [sc EXCEPT !.current = end], "NUMBER",
                   <<NumberLiteralStr(Slice(src, sc.start, end), TRUE)>>) :
               end \in {SkipDigits(src, cur + 1)}})
    ELSE AddTokenWithLiteral(src, [sc EXCEPT !.current = cur], "NUMBER",
             <<NumberLiteralStr(Slice(src, sc.start, cur), FALSE)>>)

\* scan_number once the digits of the integer part are consumed, up to cur
NumberAfterDigits(src, sc, cur) ==
    IF ScanPeek(src, cur) = "." /\ IsDigit(ScanPeekNext(src, cur))
    THEN Only({AddTokenWithLiteral(src, [sc EXCEPT !.current = end], "NUMBER",
                   <<NumberLiteralStr(Slice(src, sc.start, end), TRUE)>>) :
               end \in {SkipDigits(src, cur + 1)}})
    ELSE AddTokenWithLiteral(src, [sc EXCEPT !.current = cur], "NUMBER",
             <<NumberLiteralStr(Slice(src, sc.start, cur), FALSE)>>)

\* Scanner::scan_number
ScanNumber(src, sc) ==
    Only({NumberAfterDigits(src, sc, cur) : cur \in {SkipDigits(src, sc.current)}})

\* scan_token once advance has returned Some(c): the match on c
ScanTokenMatch(src, sc, c) ==
    CASE c = "(" -> AddToken(src, sc, "LEFT_PAREN")
      [] c = ")" -> AddToken(src, sc, "RIGHT_PAREN")
      [] c = "{" -> AddToken(src, sc, "LEFT_BRACE")
      [] c = "}" -> AddToken(src, sc, "RIGHT_BRACE")
      [] c = "*" -> AddToken(src, sc, "STAR")
      [] c = "." -> AddToken(src, sc, "DOT")
      [] c = "," -> AddToken(src, sc, "COMMA")
      [] c = "+" -> AddToken(src, sc, "PLUS")
      [] c = "-" -> AddToken(src, sc, "MINUS")
      [] c = ";" -> AddToken(src, sc, "SEMICOLON")
      [] c = "=" -> OneOrTwoChars(src, sc, "EQUAL_EQUAL", "EQUAL")
      [] c = "!" -> OneOrTwoChars(src, sc, "BANG_EQUAL", "BANG")
      [] c = "<" -> OneOrTwoChars(src, sc, "LESS_EQUAL", "LESS")
      [] c = ">" -> OneOrTwoChars(src, sc, "GREATER_EQUAL", "GREATER")
      [] c = "/" -> IF MatchNext(src, sc, "/").matched
                    THEN SkipToEndOfLine(src, MatchNext(src, sc, "/").sc)
                    ELSE AddToken(src, sc, "SLASH")
      [] c = "\"" -> ScanString(src, sc)
      [] c = "\n" -> [sc EXCEPT !.line = @ + 1]
      [] c = "\t" -> sc
      [] c = " " -> sc
      [] OTHER -> IF IsDigit(c) THEN ScanNumber(src, sc)
                  ELSE IF IsAlphabetic(c) \/ c = "_" THEN ScanIdentifier(src, sc)
                  ELSE ErrorMessage(sc, "Unexpected character: ", c)

\* Scanner::scan_token when it returns Some(()): the Scanner afterwards
ScanToken(src, sc) ==
    Only({ScanTokenMatch(src, s, ScanPeek(src, sc.current)) :
          s \in {[sc EXCEPT !.start = sc.current,
                            !.current = @ + Utf8Len(ScanPeek(src, sc.current))]}})

\* the end of scan_tokens, with the EOF token left out after a lexical error
ScanTokensEndUnlessError(sc, s) ==
    IF sc.error_occurred THEN [sc EXCEPT !.start = s]
    ELSE [sc EXCEPT !.start = s,
                    !.tokens = Append(@, [token_type |-> "EOF", lexeme |-> <<>>,
                                          literal |-> <<>>, line |-> sc.line])]

\* the end of scan_tokens: scan_token sets start and returns None, and the
\* EOF token is pushed
ScanTokensEndOf(sc, s) ==
    [sc EXCEPT !.start = s,
               !.tokens = Append(@, [token_type |-> "EOF", lexeme |-> <<>>,
                                     literal |-> <<>>, line |-> sc.line])]

\* Scanner::scan_tokens, from the Scanner sc on: the Scanner when it returns
RECURSIVE ScanTokens(_, _)
ScanTokens(src, sc) ==
    IF ScanPeek(src, sc.current) = NoChar THEN ScanTokensEndOf(sc, sc.current)
    ELSE Only({ScanTokens(src, s) : s \in {ScanToken(src, sc)}})

\* the Scanner of the state
Scanner ==
    [start |-> scanStart, current |-> scanCurrent, line |-> line,
     tokens |-> scanned, error_occurred |-> error_occurred, errs |-> scanErrors]

\* the fields of the Scanner become those of sc
ScannerBecomes(sc) ==
    /\ scanStart' = sc.start
    /\ scanCurrent' = sc.current
    /\ line' = sc.line
    /\ scanned' = sc.tokens
    /\ error_occurred' = sc.error_occurred
    /\ scanErrors' = sc.errs

\* one iteration of the loop of scan_tokens: scan_token returns Some(())
ScanTokensIteration ==
    /\ ~scanDone
    /\ ScanPeek(source, scanCurrent) # NoChar
    /\ \E sc \in {ScanToken(source, Scanner)} : ScannerBecomes(sc)
    /\ UNCHANGED <<source, scanDone, interpVars, envVars, parseVars>>

\* scan_token returns None: the loop ends, the EOF token is pushed and
\* scan_tokens returns
ScanTokensEnd ==
    /\ ~scanDone
    /\ ScanPeek(source, scanCurrent) = NoChar
    /\ \E sc \in {ScanTokensEndOf(Scanner, scanCurrent)} : ScannerBecomes(sc)
    /\ scanDone' = TRUE
    /\ UNCHANGED <<source, interpVars, envVars, parseVars>>

(***************************************************************************)
(* The texts scanned: at most MaxSource chars, each one of ScanChars, or at *)
(* most MaxRun chars, each one of OperatorChars or each one of NumberChars *)
(***************************************************************************)
ScanChars == {"=", "!", "/", "\"", "\n", "0", "1", ".", "a", "@", "U+00E9"}

RECURSIVE Texts(_)
Texts(n) ==
    IF n = 0 THEN {<<>>}
    ELSE Texts(n - 1) \cup {Append(t, c) : t \in {u \in Texts(n - 1) : Len(u) = n - 1},
                                           c \in ScanChars}

\* the chars of the arms of scan_token that call match_next('=')
OperatorChars == {"=", "!", "<", ">"}

\* chars that scan_number meets
NumberChars == {"1", "2", "3", "."}

\* Scanner::new(source), then scan_tokens is called
InitScanner ==
    /\ \/ source \in Texts(MaxSource)
       \/ \E n \in 0..MaxRun : \E text \in [1..n -> OperatorChars] :
             source = [i \in 1..n |-> text[i]]
       \/ \E n \in 0..MaxRun : \E text \in [1..n -> NumberChars] :
             source = [i \in 1..n |-> text[i]]
    /\ scanStart = 0
    /\ scanCurrent = 0
    /\ line = 1
    /\ scanned = <<>>
    /\ error_occurred = FALSE
    /\ scanErrors = <<>>
    /\ scanDone = FALSE
    /\ InterpreterIdle /\ EnvIdle /\ ParserIdle

NextScanner ==
    \/ ScanTokensIteration
    \/ ScanTokensEnd

SpecScanner == InitScanner /\ [][NextScanner]_vars

(***************************************************************************)
(* Claims about blocks and scopes (SpecInterpreter)                        *)
(*                                                                         *)
(* BlockExits is the step in which execute_block returns. Before it,       *)
(* Top.previous is the Environment as it was when the block was entered,   *)
(* environment[1] holds the names the block declared with `var`, and       *)
(* Tail(environment) is the enclosing chain as the block's statements saw  *)
(* it and assigned to it; after it, environment' is what the statements    *)
(* after the block read.                                                   *)
(***************************************************************************)
BlockExits == Len(stack) > 1 /\ Len(stack') = Len(stack) - 1

Read(e, n) == Get(e, n, 1)

\* C1: when a block exits, a name that the block declared with `var` and that
\* an enclosing scope declares too (its binding not assigned to by the block)
\* reads as the value the enclosing binding had when the block was entered.
C1_ShadowingDoesNotLeak ==
    [][BlockExits =>
         \A n \in DOMAIN environment[1] :
            (/\ Read(Top.previous, n).ok
             /\ Read(Tail(environment), n) = Read(Top.previous, n))
            => Read(environment', n) = Read(Top.previous, n)]_vars

\* C2: when a block exits, a name that the block did not declare and to which
\* it assigned a new value in an enclosing scope reads as the assigned value.
C2_AssignmentPersists ==
    [][BlockExits =>
         \A n \in ProgNames \ DOMAIN environment[1] :
            (/\ Read(Top.previous, n).ok
             /\ Read(Tail(environment), n) # Read(Top.previous, n))
            => Read(environment', n) = Read(Tail(environment), n)]_vars

\* C3: when a block exits, a name that the block declared with `var` and that
\* no enclosing scope declares is unbound: reading it and assigning to it fail
\* with the undefined-variable RuntimeError.
C3_BlockLocalIsDropped ==
    [][BlockExits =>
         \A n \in DOMAIN environment[1] :
            ~Read(Top.previous, n).ok
            => /\ Read(environment', n) =
                     [ok |-> FALSE, value |-> Nil, error |-> UndefinedVariable(n, 1)]
               /\ ~Assign(environment', n, Nil, 1).ok]_vars

(***************************************************************************)
(* Claims about the order of execution (SpecInterpreter)                   *)
(***************************************************************************)
\* the paths of the statements of a statement list in program order: each
\* statement, a Block followed by the statements inside it
RECURSIVE PreOrder(_, _, _)
PreOrder(stmts, path, k) ==
    IF k > Len(stmts) THEN <<>>
    ELSE <<Append(path, k)>>
         \o (IF stmts[k].type = "Block"
             THEN PreOrder(stmts[k].statements, Append(path, k), 1)
             ELSE <<>>)
         \o PreOrder(stmts, path, k + 1)

ProgramOrder == PreOrder(statements, <<>>, 1)

RECURSIVE StmtAt(_, _)
StmtAt(stmts, path) ==
    IF Len(path) = 1 THEN stmts[path[1]]
    ELSE StmtAt(stmts[path[1]].statements, Tail(path))

\* the number of Print statements among the first k executed statements
PrintsAmong(k) ==
    Cardinality({j \in 1..k : StmtAt(statements, executed[j]).type = "Print"})

C4_State ==
    \* the statements executed are an initial part of the program order
    /\ Len(executed) <= Len(ProgramOrder)
    /\ executed = SubSeq(ProgramOrder, 1, Len(executed))
    \* the output is that of the Print statements executed, the failing
    \* statement excluded
    /\ Len(output) = PrintsAmong(IF pending.ok THEN Len(executed)
                                               ELSE Len(executed) - 1)
    \* interpret returns Ok only after every statement, and otherwise the error
    /\ outcome.status = "ok" => pending.ok /\ executed = ProgramOrder
    /\ outcome.status = "err" => ~pending.ok /\ outcome.error = pending.error
    /\ ~pending.ok => pending.error # NoError

C4_Step ==
    \* once a statement has raised a RuntimeError nothing is executed or printed
    ~pending.ok => /\ executed' = executed
                   /\ output' = output
                   /\ pending' = pending
                   /\ outcome'.status \in {"running", "err"}

\* C4: interpret executes the statements in program order and stops at the
\* first one that raises a RuntimeError: the output is that of the statements
\* before it, no later statement is executed, the error is returned.
C4_StopsAtFirstError == []C4_State /\ [][C4_Step]_vars

\* a statement failed after output was produced, a statement after it was
\* left unexecuted, and interpret has returned the error
C4_Witness ==
    /\ outcome.status = "err"
    /\ outcome.error = UndefinedVariable(UndeclaredName, 1)
    /\ output = <<<<"1">>>>
    /\ Len(executed) < Len(ProgramOrder)

(***************************************************************************)
(* Claims about parse errors (SpecParser)                                  *)
(***************************************************************************)
\* C5: once a required token was found missing (Parser::consume has reported
\* it), the parse is over: no declaration is parsed and added to the statement
\* list any more.
C5_AbortsAtFirstMismatch ==
    [][stderr # <<>> => parsed' = parsed]_vars

\* C6: a parse in which a required token was found missing does not return a
\* statement list from parse_statements nor an expression from
\* parse_expression.
C6_ParseErrorIsSurfaced ==
    parseResult \in {"statements", "expression"} => stderr = <<>>

(***************************************************************************)
(* Claims about the scanner (SpecScanner)                                  *)
(***************************************************************************)
IsEof(token) == token.token_type = "EOF"

\* C7: once scan_tokens has returned, the token sequence holds exactly one
\* EOF token and that token is the last one; while it runs, no EOF token has
\* been pushed yet
C7_ExactlyOneEofLast ==
    /\ scanDone => /\ Len(scanned) >= 1
                   /\ IsEof(scanned[Len(scanned)])
                   /\ \A i \in 1..(Len(scanned) - 1) : ~IsEof(scanned[i])
    /\ ~scanDone => \A i \in 1..Len(scanned) : ~IsEof(scanned[i])

\* scan_tokens has returned for a text with a lexical error and with tokens
C7_Witness ==
    /\ scanDone
    /\ error_occurred
    /\ Len(scanned) >= 3
    /\ IsEof(scanned[Len(scanned)])

\* the chars scan_token has an arm for
ExpectedChar(c) ==
    \/ c \in {"(", ")", "{", "}", "*", ".", ",", "+", "-", ";", "=", "!", "<",
              ">", "/", "\"", "\n", "\t", " ", "_"}
    \/ IsDigit(c)
    \/ IsAlphabetic(c)

\* The text read from its k-th char on in mode "code", "string" (inside a
\* string literal) or "comment" (after //): whether it has an unexpected
\* character outside string literals and comments, or a string literal
\* without its closing quote
RECURSIVE HasLexicalError(_, _, _)
HasLexicalError(src, k, mode) ==
    IF k > Len(src) THEN mode = "string"
    ELSE CASE mode = "string" ->
                HasLexicalError(src, k + 1, IF src[k] = "\"" THEN "code" ELSE "string")
           [] mode = "comment" ->
                HasLexicalError(src, k + 1, IF src[k] = "\n" THEN "code" ELSE "comment")
           [] OTHER ->
                IF src[k] = "\"" THEN HasLexicalError(src, k + 1, "string")
                ELSE IF src[k] = "/" /\ k < Len(src) /\ src[k + 1] = "/"
                THEN HasLexicalError(src, k + 2, "comment")
                ELSE ~ExpectedChar(src[k]) \/ HasLexicalError(src, k + 1, "code")

\* The same text with a space in place of each unexpected character outside
\* string literals and comments
RECURSIVE Blanked(_, _, _)
Blanked(src, k, mode) ==
    IF k > Len(src) THEN <<>>
    ELSE CASE mode = "string" ->
                <<src[k]>> \o Blanked(src, k + 1, IF src[k] = "\"" THEN "code" ELSE "string")
           [] mode = "comment" ->
                <<src[k]>> \o Blanked(src, k + 1, IF src[k] = "\n" THEN "code" ELSE "comment")
           [] OTHER ->
                IF src[k] = "\"" THEN <<src[k]>> \o Blanked(src, k + 1, "string")
                ELSE IF src[k] = "/" /\ k < Len(src) /\ src[k + 1] = "/"
                THEN <<"/", "/">> \o Blanked(src, k + 2, "comment")
                ELSE <<IF ExpectedChar(src[k]) THEN src[k] ELSE " ">>
                     \o Blanked(src, k + 1, "code")

\* when scan_tokens has returned, the flag is set exactly when the text has
\* a lexical error, and the tokens are those of the text without its
\* unexpected characters
C8_State ==
    scanDone =>
        /\ error_occurred <=> HasLexicalError(source, 1, "code")
        /\ scanned = ScanTokens(Blanked(source, 1, "code"), ScannerNew).tokens

\* the flag is never cleared, and the step that meets an unexpected character
\* reports it, sets the flag, pushes no token and leaves the scan running at
\* the next character
C8_Step ==
    /\ error_occurred => error_occurred'
    /\ (/\ ~scanDone
        /\ ScanPeek(source, scanCurrent) # NoChar
        /\ ~ExpectedChar(ScanPeek(source, scanCurrent))
        /\ scanCurrent' # scanCurrent)
       => /\ scanCurrent' = scanCurrent + Utf8Len(ScanPeek(source, scanCurrent))
          /\ scanned' = scanned
          /\ error_occurred'
          /\ Len(scanErrors') = Len(scanErrors) + 1
          /\ ~scanDone'

\* C8: a lexical error does not stop the scan: after an unexpected character
\* the scan goes on from the next character and the valid tokens after it
\* are pushed all the same; the error flag is true at the end exactly when
\* there was an unexpected character or an unterminated string, and once
\* set it is never cleared
C8_ErrorsDoNotStopTheScan == []C8_State /\ [][C8_Step]_vars

\* a finished scan of a text that begins with an unexpected character, has
\* a token after it and ends inside a string literal
C8_Witness ==
    /\ scanDone
    /\ Len(source) >= 1
    /\ ~ExpectedChar(source[1])
    /\ Len(scanned) >= 2
    /\ \E i \in 1..Len(scanErrors) : scanErrors[i].message = "Unterminated string."
    /\ error_occurred

(***************************************************************************)
(* Claims about Environment (SpecEnvironment)                              *)
(***************************************************************************)
\* the scopes of e that declare n, innermost first at index 1
Declaring(e, n) == {i \in 1..Len(e) : n \in DOMAIN e[i]}

Innermost(e, n) == CHOOSE i \in Declaring(e, n) : \A j \in Declaring(e, n) : i <= j

\* C9: assign changes the binding of the name in the innermost scope that
\* declares it and nothing else; when no scope declares it, it fails with
\* "Undefined variable" and the given line and changes nothing.
C9_AssignInnermostOnly ==
    [][\A n \in EnvNames, v \in EnvValues, ln \in 1..MaxLine :
         EnvAssign(n, v, ln) =>
            IF Declaring(env, n) = {}
            THEN /\ env' = env
                 /\ envResult' = [ok |-> FALSE, value |-> Nil,
                                  error |-> UndefinedVariable(n, ln)]
            ELSE /\ envResult'.ok
                 /\ Len(env') = Len(env)
                 /\ \A i \in 1..Len(env) :
                       /\ DOMAIN env'[i] = DOMAIN env[i]
                       /\ \A m \in DOMAIN env[i] :
                             env'[i][m] = IF i = Innermost(env, n) /\ m = n
                                          THEN v ELSE env[i][m]]_vars

\* an assignment went through an empty current scope to the binding of the
\* enclosing scope, past which an outer binding of the same name and another
\* binding of the same scope kept their values
C9_Witness ==
    /\ envCall.op = "assign" /\ envResult.ok
    /\ Len(env) = 3
    /\ envCall.name \notin DOMAIN env[1]
    /\ DOMAIN env[2] = EnvNames
    /\ env[2][envCall.name] = envCall.value
    /\ envCall.name \in DOMAIN env[3]
    /\ env[3][envCall.name] # envCall.value
    /\ \E m \in EnvNames \ {envCall.name} : env[2][m] # envCall.value

\* C10: get returns the binding of the name in the innermost scope that
\* declares it, fails with "Undefined variable" and the given line when no
\* scope declares it, and changes no scope.
C10_GetInnermost ==
    [][\A n \in EnvNames, ln \in 1..MaxLine :
         EnvGet(n, ln) =>
            /\ env' = env
            /\ envResult' =
                 IF Declaring(env, n) = {}
                 THEN [ok |-> FALSE, value |-> Nil, error |-> UndefinedVariable(n, ln)]
                 ELSE [ok |-> TRUE, value |-> env[Innermost(env, n)][n],
                       error |-> NoError]]_vars

\* a get found the name in the scope enclosing the current one, which shadows
\* a different binding of the name further out
C10_Witness ==
    /\ envCall.op = "get" /\ envResult.ok
    /\ Len(env) = 3
    /\ envCall.name \notin DOMAIN env[1]
    /\ envCall.name \in DOMAIN env[2]
    /\ envCall.name \in DOMAIN env[3]
    /\ env[2][envCall.name] # env[3][envCall.name]
    /\ envResult.value = env[2][envCall.name]

\* C11: define always succeeds and inserts or overwrites the binding of the
\* name in the current scope only: the other bindings of the current scope
\* and every enclosing scope are unchanged, also when an enclosing scope
\* declares the name.
C11_DefineCurrentScopeOnly ==
    [][\A n \in EnvNames, v \in EnvValues :
         EnvDefine(n, v) =>
            /\ envResult'.ok
            /\ Len(env') = Len(env)
            /\ DOMAIN env'[1] = DOMAIN env[1] \cup {n}
            /\ env'[1][n] = v
            /\ \A m \in DOMAIN env[1] \ {n} : env'[1][m] = env[1][m]
            /\ \A i \in 2..Len(env) : env'[i] = env[i]]_vars

\* a define bound a name in the current scope that the enclosing scope binds
\* to another value, next to another binding of the current scope
C11_Witness ==
    /\ envCall.op = "define" /\ envResult.ok
    /\ Len(env) >= 2
    /\ DOMAIN env[1] = EnvNames
    /\ env[1][envCall.name] = envCall.value
    /\ \E m \in EnvNames \ {envCall.name} : env[1][m] # envCall.value
    /\ envCall.name \in DOMAIN env[2]
    /\ env[2][envCall.name] # envCall.value

(***************************************************************************)
(* Claims about the parsing of expressions (SpecParseExpression)           *)
(***************************************************************************)
\* the tokens an expression is written with, from left to right
RECURSIVE Yield(_)
Yield(expr) ==
    CASE expr.type = "Literal" -> <<TokenOfKind("NUMBER", expr.value.num)>>
      [] expr.type = "Variable" ->
           <<FullToken("IDENTIFIER", expr.name.lexeme, <<>>)>>
      [] expr.type = "Grouping" ->
           <<TokenOfKind("LEFT_PAREN", 1)>> \o Yield(expr.expr)
              \o <<TokenOfKind("RIGHT_PAREN", 1)>>
      [] expr.type = "Unary" -> <<expr.operator>> \o Yield(expr.right)
      [] expr.type = "Binary" ->
           Yield(expr.left) \o <<expr.operator>> \o Yield(expr.right)
      [] expr.type = "Assign" ->
           <<FullToken("IDENTIFIER", expr.name.lexeme, <<>>),
             TokenOfKind("EQUAL", 1)>> \o Yield(expr.value)

\* the tokens handed to the parser, without the EOF token
Input == SubSeq(tokens, 1, Len(tokens) - 1)

\* the i-th token is there and is of the kind
IsKind(i, kind) == i \in 1..Len(tokens) /\ tokens[i].token_type = kind

\* the `=` at position i comes after a left-hand side that is one variable:
\* an identifier at the start of the expression, of a grouping or of the
\* right-hand side of an assignment
ValidTarget(i) ==
    /\ IsKind(i - 1, "IDENTIFIER")
    /\ i = 2 \/ IsKind(i - 2, "EQUAL") \/ IsKind(i - 2, "LEFT_PAREN")

\* ts is  x1 = x2 = ... = xk = operand  with k >= 1
IsAssignmentChain(ts) ==
    /\ Len(ts) >= 3 /\ Len(ts) % 2 = 1
    /\ \A i \in 1..(Len(ts) - 1) :
          ts[i].token_type = IF i % 2 = 1 THEN "IDENTIFIER" ELSE "EQUAL"
    /\ ts[Len(ts)].token_type \in {"IDENTIFIER", "NUMBER"}

\* Assign(x1, Assign(x2, ... Assign(xk, operand)))
RECURSIVE AssignmentChainTree(_, _)
AssignmentChainTree(ts, i) ==
    IF i = Len(ts)
    THEN IF ts[i].token_type = "NUMBER" THEN Literal(NumberLiteral(i))
         ELSE Variable(Token("IDENTIFIER", ts[i].lexeme, 1))
    ELSE AssignExpr(Token("IDENTIFIER", ts[i].lexeme, 1),
                    AssignmentChainTree(ts, i + 2))

\* C12: assignment parses right-associatively, `a = b = c` giving
\* Assign(a, Assign(b, c)), and only after a left-hand side that parsed as a
\* Variable: every `=` the parser gets to after another left-hand side ends
\* the parse with the error "Invalid assignment target." and without an
\* expression, and each `=` of a parsed expression is the `=` of an Assign
\* node whose name is the identifier before it.
C12_AssignmentRightAssociative ==
    parseResult # "none" =>
        /\ IsAssignmentChain(Input) =>
              /\ parseResult = "expression"
              /\ parsed = <<AssignmentChainTree(Input, 1)>>
              /\ current = Len(Input)
        /\ parseResult = "exit65" =>
              /\ stderr # <<>>
              /\ stderr[Len(stderr)] =
                    [line |-> 1, message |-> "Invalid assignment target."]
              /\ parsed = <<>>
              /\ \E i \in 1..Len(Input) : IsKind(i, "EQUAL") /\ ~ValidTarget(i)
        /\ parseResult # "exit65" =>
              /\ ~IsKind(current + 1, "EQUAL")
              /\ \A i \in 1..current : IsKind(i, "EQUAL") => ValidTarget(i)
        /\ parseResult = "expression" => Yield(parsed[1]) = SubSeq(tokens, 1, current)

\* `a = c = e` was parsed as Assign(a, Assign(c, e))
C12_Witness ==
    /\ parseResult = "expression"
    /\ Len(Input) = 5
    /\ IsAssignmentChain(Input)
    /\ parsed[1].type = "Assign"
    /\ parsed[1].value.type = "Assign"
    /\ parsed[1].value.value.type = "Variable"

\* the rung of the ladder an operator belongs to
OperatorRung(token_type) ==
    CASE token_type \in {"STAR", "SLASH"} -> 2
      [] token_type \in {"PLUS", "MINUS"} -> 3
      [] token_type \in {"GREATER", "GREATER_EQUAL", "LESS", "LESS_EQUAL"} -> 4
      [] token_type \in {"BANG_EQUAL", "EQUAL_EQUAL"} -> 5

\* the rung of an expression: primary 0, unary 1, factor 2, term 3,
\* comparison 4, equality 5, assignment 6
ExprRung(expr) ==
    CASE expr.type \in {"Literal", "Variable", "Grouping"} -> 0
      [] expr.type = "Unary" -> 1
      [] expr.type = "Binary" -> OperatorRung(expr.operator.token_type)
      [] expr.type = "Assign" -> 6

\* the tree follows the ladder: the right operand of a binary operator binds
\* tighter than the operator, its left operand at least as tight (operators
\* of one rung group to the left), and the operand of a unary operator is
\* unary or primary
RECURSIVE LadderShaped(_)
LadderShaped(expr) ==
    CASE expr.type \in {"Literal", "Variable"} -> TRUE
      [] expr.type = "Grouping" -> LadderShaped(expr.expr)
      [] expr.type = "Unary" ->
           ExprRung(expr.right) <= 1 /\ LadderShaped(expr.right)
      [] expr.type = "Binary" ->
           /\ ExprRung(expr.left) <= ExprRung(expr)
           /\ ExprRung(expr.right) < ExprRung(expr)
           /\ LadderShaped(expr.left)
           /\ LadderShaped(expr.right)
      [] expr.type = "Assign" -> LadderShaped(expr.value)

\* ts from its i-th token on is the rest of a well-formed expression without
\* assignment: where an operand is expected come prefix operators, `(` and
\* then an operand; after an operand come `)` while parentheses are open, or
\* a binary operator and then an operand again; at the end an operand has
\* been read and no parenthesis is open
RECURSIVE WellFormedFrom(_, _, _, _)
WellFormedFrom(ts, i, operandExpected, open) ==
    IF i > Len(ts) THEN ~operandExpected /\ open = 0
    ELSE IF operandExpected
    THEN CASE ts[i].token_type \in {"BANG", "MINUS"} ->
                WellFormedFrom(ts, i + 1, TRUE, open)
           [] ts[i].token_type = "LEFT_PAREN" ->
                WellFormedFrom(ts, i + 1, TRUE, open + 1)
           [] ts[i].token_type \in {"NUMBER", "IDENTIFIER"} ->
                WellFormedFrom(ts, i + 1, FALSE, open)
           [] OTHER -> FALSE
    ELSE CASE ts[i].token_type = "RIGHT_PAREN" ->
                open > 0 /\ WellFormedFrom(ts, i + 1, FALSE, open - 1)
           [] ts[i].token_type \in {"STAR", "SLASH", "PLUS", "MINUS", "GREATER",
                                    "GREATER_EQUAL", "LESS", "LESS_EQUAL",
                                    "BANG_EQUAL", "EQUAL_EQUAL"} ->
                WellFormedFrom(ts, i + 1, TRUE, open)
           [] OTHER -> FALSE

WellFormed(ts) == WellFormedFrom(ts, 1, TRUE, 0)

\* the kinds of the tokens
Kinds(ts) == [i \in 1..Len(ts) |-> ts[i].token_type]

\* the number token at position i, parsed
Operand(i) == Literal(NumberLiteral(i))

\* C13: a well-formed token sequence of an expression is parsed whole into
\* the tree given by the ladder equality < comparison < term < factor <
\* unary < primary, operators of one rung grouping to the left:
\* `1 + 2 * 3` gives (+ 1 (* 2 3)), `1 - 2 - 3` gives (- (- 1 2) 3) and
\* `(1 + 2) * 3` gives (* (group (+ 1 2)) 3).
C13_PrecedenceLadder ==
    parseResult # "none" =>
        /\ WellFormed(Input) =>
              /\ parseResult = "expression"
              /\ current = Len(Input)
              /\ Yield(parsed[1]) = Input
              /\ LadderShaped(parsed[1])
        /\ Kinds(Input) = <<"NUMBER", "PLUS", "NUMBER", "STAR", "NUMBER">> =>
              parsed = <<Binary(Operand(1), tokens[2],
                                Binary(Operand(3), tokens[4], Operand(5)))>>
        /\ Kinds(Input) = <<"NUMBER", "MINUS", "NUMBER", "MINUS", "NUMBER">> =>
              parsed = <<Binary(Binary(Operand(1), tokens[2], Operand(3)),
                                tokens[4], Operand(5))>>
        /\ Kinds(Input) = <<"LEFT_PAREN", "NUMBER", "PLUS", "NUMBER",
                            "RIGHT_PAREN", "STAR", "NUMBER">> =>
              parsed = <<Binary(Grouping(Binary(Operand(2), tokens[3], Operand(4))),
                                tokens[6], Operand(7))>>

\* `(2 + 4) * 7` was parsed into a product whose left operand is the group
C13_Witness ==
    /\ parseResult = "expression"
    /\ Kinds(Input) = <<"LEFT_PAREN", "NUMBER", "PLUS", "NUMBER", "RIGHT_PAREN",
                        "STAR", "NUMBER">>
    /\ parsed[1].type = "Binary"
    /\ parsed[1].left.type = "Grouping"
    /\ parsed[1].operator.token_type = "STAR"

(***************************************************************************)
(* Claims about the evaluation of one operator (SpecEvaluate).             *)
(***************************************************************************)
\* interpret has returned
Evaluated == outcome.status \in {"ok", "err"}

\* the evaluated expression, its operator and its operands
Evaluand == statements[1].initializer

IsBinaryOf(types) ==
    Evaluand.type = "Binary" /\ Evaluand.operator.token_type \in types

IsUnaryOf(types) ==
    Evaluand.type = "Unary" /\ Evaluand.operator.token_type \in types

\* what an operand evaluates to: a literal to its value, (1 - 1) to Number 0
ValueOf(operand) ==
    IF operand.type = "Literal" THEN operand.value ELSE NumberLiteral(0)

LeftValue == ValueOf(Evaluand.left)

RightValue == ValueOf(Evaluand.right)

\* the expression produced this value: interpret returned Ok and a is bound
\* to the value
Produced(value) ==
    /\ outcome.status = "ok"
    /\ <<"a">> \in DOMAIN environment[1]
    /\ environment[1][<<"a">>] = value

\* the expression failed with this message on the operator's line: interpret
\* returned the error and a is not bound
FailedWith(message) ==
    /\ outcome.status = "err"
    /\ outcome.error = RuntimeError(message, Evaluand.operator.line)
    /\ <<"a">> \notin DOMAIN environment[1]

\* C14, as stated: a binary / whose right operand evaluates to Number 0 fails
\* with "Division by zero." and produces no value, whatever the left operand
\* evaluates to.
C14_DivisionByZeroWhateverTheLeft ==
    (Evaluated /\ IsBinaryOf({"SLASH"}) /\ RightValue = NumberLiteral(0))
        => FailedWith("Division by zero.")

\* C14, amended: a binary / whose right operand evaluates to Number 0 never
\* produces a value; it fails with "Division by zero." when the left operand
\* evaluates to a Number and with "Operand must be a number." when it does
\* not, on the operator's line in both cases.
C14_DivisionByZeroAfterTypeCheck ==
    (Evaluated /\ IsBinaryOf({"SLASH"}) /\ RightValue = NumberLiteral(0))
        => IF LeftValue.kind = "Number"
           THEN FailedWith("Division by zero.")
           ELSE FailedWith("Operand must be a number.")

\* 2 / (1 - 1) on line 2 has failed with "Division by zero."
C14_Witness ==
    /\ Evaluated
    /\ IsBinaryOf({"SLASH"})
    /\ Evaluand.operator.line = 2
    /\ LeftValue = NumberLiteral(2)
    /\ Evaluand.right = ZeroByComputation
    /\ FailedWith("Division by zero.")

\* C15: binary + yields the concatenation of two Strings and the sum of two
\* Numbers; for every other pairing of operand types it fails with "Operands
\* must be two numbers or two strings." on the operator's line.
C15_PlusConcatenatesOrAdds ==
    (Evaluated /\ IsBinaryOf({"PLUS"}))
        => CASE LeftValue.kind = "String" /\ RightValue.kind = "String" ->
                  Produced(StringLiteral(LeftValue.str \o RightValue.str))
             [] LeftValue.kind = "Number" /\ RightValue.kind = "Number" ->
                  Produced(NumberLiteral(LeftValue.num + RightValue.num))
             [] OTHER ->
                  FailedWith("Operands must be two numbers or two strings.")

\* "a" + "1" has produced "a1", and so has not failed
C15_Witness ==
    /\ Evaluated
    /\ IsBinaryOf({"PLUS"})
    /\ LeftValue = StringLiteral(<<"a">>)
    /\ RightValue = StringLiteral(<<"1">>)
    /\ Produced(StringLiteral(<<"a", "1">>))

\* C16: unary ! never fails; it yields Boolean true exactly when the operand
\* is Nil or Boolean false, and Boolean false for every other value.
C16_BangNegatesTruthiness ==
    (Evaluated /\ IsUnaryOf({"BANG"}))
        => Produced(BooleanLiteral(RightValue \in {Nil, BooleanLiteral(FALSE)}))

\* !0 has produced false
C16_Witness ==
    /\ Evaluated
    /\ IsUnaryOf({"BANG"})
    /\ RightValue = NumberLiteral(0)
    /\ Produced(BooleanLiteral(FALSE))

\* two values of the same variant with equal payload
SameVariantEqualPayload(l, r) ==
    /\ l.kind = r.kind
    /\ CASE l.kind = "Number" -> l.num * r.den = r.num * l.den
         [] l.kind = "String" -> l.str = r.str
         [] l.kind = "Boolean" -> l.bool = r.bool
         [] l.kind = "Nil" -> TRUE

\* C17: binary == and != never fail; == is true only for two values of the
\* same variant with equal payload, and != is the negation of == on the same
\* operands.
C17_EqualityNeverFails ==
    /\ (Evaluated /\ IsBinaryOf({"EQUAL_EQUAL"}))
          => Produced(BooleanLiteral(SameVariantEqualPayload(LeftValue, RightValue)))
    /\ (Evaluated /\ IsBinaryOf({"BANG_EQUAL"}))
          => \E eq \in {BinaryOp(Token("EQUAL_EQUAL", <<"=", "=">>,
                                       Evaluand.operator.line),
                                 LeftValue, RightValue, EnvironmentNew)} :
                /\ eq.ok
                /\ eq.value.kind = "Boolean"
                /\ Produced(BooleanLiteral(~eq.value.bool))

\* 1 != "1" has produced true: the Number 1 and the String "1" are not equal
C17_Witness ==
    /\ Evaluated
    /\ IsBinaryOf({"BANG_EQUAL"})
    /\ LeftValue = NumberLiteral(1)
    /\ RightValue = StringLiteral(<<"1">>)
    /\ Produced(BooleanLiteral(TRUE))

(***************************************************************************)
(* Claims about the lexemes of operators and numbers (SpecScanner).        *)
(***************************************************************************)
\* the tokens pushed before the EOF token, their kinds and their lexemes
\* put end to end
Lexed == SubSeq(scanned, 1, Len(scanned) - 1)

TokenTypes(ts) == [i \in 1..Len(ts) |-> ts[i].token_type]

RECURSIVE Lexemes(_)
Lexemes(ts) == IF ts = <<>> THEN <<>> ELSE Head(ts).lexeme \o Lexemes(Tail(ts))

MadeOf(text, chars) == \A i \in 1..Len(text) : text[i] \in chars

\* the kind of an operator lexeme
OperatorKind(lexeme) ==
    CASE lexeme = <<"=">> -> "EQUAL"
      [] lexeme = <<"=", "=">> -> "EQUAL_EQUAL"
      [] lexeme = <<"!">> -> "BANG"
      [] lexeme = <<"!", "=">> -> "BANG_EQUAL"
      [] lexeme = <<"<">> -> "LESS"
      [] lexeme = <<"<", "=">> -> "LESS_EQUAL"
      [] lexeme = <<">">> -> "GREATER"
      [] lexeme = <<">", "=">> -> "GREATER_EQUAL"
      [] OTHER -> "none"

\* C18: in a text of the chars = ! < > the tokens cover the text in order,
\* each is the one-char or the two-char kind of its lexeme, and a one-char
\* token is never followed immediately by '=' (the two-char kind is emitted
\* exactly when '=' follows); === scans as EQUAL_EQUAL, EQUAL and !== as
\* BANG_EQUAL, EQUAL.
C18_TwoCharOperators ==
    (scanDone /\ MadeOf(source, OperatorChars))
        => /\ ~error_occurred
           /\ Lexemes(Lexed) = source
           /\ \A k \in 1..Len(Lexed) :
                 /\ Lexed[k].token_type = OperatorKind(Lexed[k].lexeme)
                 /\ Lexed[k].token_type # "none"
                 /\ (Len(Lexed[k].lexeme) = 1 /\ k < Len(Lexed))
                       => Lexed[k + 1].lexeme[1] # "="
           /\ source = <<"=", "=", "=">>
                 => TokenTypes(scanned) = <<"EQUAL_EQUAL", "EQUAL", "EOF">>
           /\ source = <<"!", "=", "=">>
                 => TokenTypes(scanned) = <<"BANG_EQUAL", "EQUAL", "EOF">>

\* <==!> has been scanned as LESS_EQUAL, EQUAL, BANG, GREATER
C18_Witness ==
    /\ scanDone
    /\ source = <<"<", "=", "=", "!", ">">>
    /\ TokenTypes(scanned) = <<"LESS_EQUAL", "EQUAL", "BANG", "GREATER", "EOF">>

\* the chars of a lexeme before its first '.', and those after it
RECURSIVE BeforeDot(_)
BeforeDot(lexeme) ==
    IF lexeme = <<>> \/ Head(lexeme) = "." THEN <<>>
    ELSE <<Head(lexeme)>> \o BeforeDot(Tail(lexeme))

AfterDot(lexeme) == SubSeq(lexeme, Len(BeforeDot(lexeme)) + 2, Len(lexeme))

HasDot(lexeme) == \E i \in 1..Len(lexeme) : lexeme[i] = "."

\* a run of digits, or a run of digits, one '.' and a run of digits
IsNumberLexeme(lexeme) ==
    /\ BeforeDot(lexeme) # <<>>
    /\ \A i \in 1..Len(BeforeDot(lexeme)) : IsDigit(BeforeDot(lexeme)[i])
    /\ HasDot(lexeme) =>
          /\ AfterDot(lexeme) # <<>>
          /\ \A i \in 1..Len(AfterDot(lexeme)) : IsDigit(AfterDot(lexeme)[i])

\* C19: in a text of digits and dots the tokens cover the text in order; a
\* NUMBER lexeme is a run of digits, extended by one '.' and a run of digits;
\* the runs are maximal (no NUMBER follows a NUMBER) and the '.' is taken
\* whenever a digit follows it (no NUMBER without '.' is followed by DOT and
\* NUMBER); any other '.' is a DOT token.  12. scans as NUMBER 12, DOT and
\* 1.2.3 as NUMBER 1.2, DOT, NUMBER 3.
C19_NumberLexemeIsMaximal ==
    (scanDone /\ MadeOf(source, NumberChars))
        => /\ ~error_occurred
           /\ Lexemes(Lexed) = source
           /\ \A k \in 1..Len(Lexed) :
                 \/ Lexed[k].token_type = "DOT" /\ Lexed[k].lexeme = <<".">>
                 \/ /\ Lexed[k].token_type = "NUMBER"
                    /\ IsNumberLexeme(Lexed[k].lexeme)
                    /\ k < Len(Lexed) => Lexed[k + 1].token_type = "DOT"
                    /\ (~HasDot(Lexed[k].lexeme) /\ k + 1 < Len(Lexed))
                          => Lexed[k + 2].token_type = "DOT"
           /\ source = <<"1", "2", ".">>
                 => /\ TokenTypes(scanned) = <<"NUMBER", "DOT", "EOF">>
                    /\ scanned[1].lexeme = <<"1", "2">>
           /\ source = <<"1", ".", "2", ".", "3">>
                 => /\ TokenTypes(scanned) = <<"NUMBER", "DOT", "NUMBER", "EOF">>
                    /\ scanned[1].lexeme = <<"1", ".", "2">>
                    /\ scanned[3].lexeme = <<"3">>

\* 1.2.3 has been scanned as NUMBER 1.2, DOT, NUMBER 3
C19_Witness ==
    /\ scanDone
    /\ source = <<"1", ".", "2", ".", "3">>
    /\ TokenTypes(scanned) = <<"NUMBER", "DOT", "NUMBER", "EOF">>
    /\ scanned[1].lexeme = <<"1", ".", "2">>

(***************************************************************************)
(* Claim about the termination of parse_statements (SpecParser).           *)
(***************************************************************************)
\* C20: parse_statements terminates on every token sequence that ends with
\* the EOF token: no iteration of the declaration loop of parse_statements or
\* of block returns None with no token consumed, which would leave the Parser
\* as it was before the iteration and repeat it forever.
C20_ParseStatementsTerminates == parseResult # "loops"

(***************************************************************************)
(* Claim about the line numbers of tokens (SpecScanner).                   *)
(***************************************************************************)
\* the number of '\n' chars of a text
RECURSIVE Newlines(_)
Newlines(text) ==
    IF text = <<>> THEN 0
    ELSE (IF Head(text) = "\n" THEN 1 ELSE 0) + Newlines(Tail(text))

\* a text without its last char
ButLast(text) == SubSeq(text, 1, Len(text) - 1)

\* the line counter is 1 plus the newlines consumed: each one is counted once
C21_State == line = 1 + Newlines(Slice(source, 0, scanCurrent))

\* a step that pushes a token leaves the earlier tokens alone and gives the
\* new one the line 1 plus the number of newlines before its last char, the
\* char the scan has just consumed (for the EOF token: before the end of the
\* text); a step that starts at // pushes no token and consumes up to the
\* next newline, that newline included, or up to the end of the text
C21_Step ==
    /\ Len(scanned') >= Len(scanned)
    /\ SubSeq(scanned', 1, Len(scanned)) = scanned
    /\ Len(scanned') <= Len(scanned) + 1
    /\ Len(scanned') = Len(scanned) + 1
          => scanned'[Len(scanned')].line =
                IF IsEof(scanned'[Len(scanned')])
                THEN 1 + Newlines(source)
                ELSE 1 + Newlines(ButLast(Slice(source, 0, scanCurrent')))
    /\ (/\ ~scanDone
        /\ ScanPeek(source, scanCurrent) = "/"
        /\ ScanPeekNext(source, scanCurrent) = "/"
        /\ scanCurrent' # scanCurrent)
       => /\ scanned' = scanned
          /\ Newlines(ButLast(Slice(source, scanCurrent, scanCurrent'))) = 0
          /\ \/ Slice(source, scanCurrent' - 1, scanCurrent') = <<"\n">>
             \/ ScanPeek(source, scanCurrent') = NoChar

\* C21: every token's line number is 1 plus the number of '\n' chars of the
\* source before the token's last char; each newline is counted once, be it
\* between tokens, at the end of a // comment or inside a string literal, and
\* a // comment emits no token for any char up to the next newline or the end
\* of the text.
C21_TokenLines == []C21_State /\ [][C21_Step]_vars

\* the scan of a comment, of a newline inside a string literal and of a token
\* after each: the identifier after //\n, or the one after "\n", is on line 2
C21_Witness ==
    /\ scanDone
    /\ \/ source = <<"/", "/", "\n", "a">>
       \/ source = <<"\"", "\n", "\"", "a">>
    /\ scanned[Len(scanned) - 1].token_type = "IDENTIFIER"
    /\ scanned[Len(scanned) - 1].line = 2
    /\ scanned[Len(scanned)].line = 2

(***************************************************************************)
(* Claim about the scope depth around blocks (SpecInterpreter).  The depth *)
(* of an Environment is the length of its chain of scopes; the stack holds *)
(* one frame for interpret and one for every execute_block running.        *)
(***************************************************************************)
Depth(e) == Len(e)

\* while interpret runs the current Environment is one scope deeper than the
\* global one for every block being executed, and once interpret has
\* returned, with Ok or with Err, it is the global scope with nothing
\* enclosing it
C22_State ==
    /\ (outcome.status = "running" /\ stack # <<>>)
          => Depth(environment) = Len(stack)
    /\ outcome.status \in {"ok", "err"} => Depth(environment) = 1

\* entering a block adds one scope; when the block exits, with Ok or with
\* Err, the current Environment has again the depth of the Environment that
\* was current when the block was entered
C22_Step ==
    /\ Len(stack') = Len(stack) + 1
          => /\ Depth(environment') = Depth(environment) + 1
             /\ stack'[Len(stack')].previous = environment
    /\ BlockExits
          => /\ Depth(environment') = Depth(Top.previous)
             /\ Depth(environment') = Depth(environment) - 1

\* C22: after a Block statement finishes, normally or with a RuntimeError in
\* any of its (possibly nested) statements, the current Environment is at the
\* scope depth it had before the block was entered; after every interpret
\* call it is the global scope with no enclosing scope.
C22_DepthRestored == []C22_State /\ [][C22_Step]_vars

\* interpret has returned the RuntimeError of a statement inside a block
\* inside a block, and the current Environment is the global scope
C22_Witness ==
    /\ outcome.status = "err"
    /\ executed # <<>>
    /\ Len(executed[Len(executed)]) = 3
    /\ Depth(environment) = 1

====
